---------------------------- MODULE Spec2Model ----------------------------
(***************************************************************************)
(* libfdtpp: a flattened-device-tree reader that works in place on a byte  *)
(* buffer (src/fdt.hpp; earlier drafts in src/libfdt.cpp and               *)
(* src/fdt_parser.hpp).                                                    *)
(*                                                                         *)
(* The buffer is a sequence of bytes at address `base`.  Pointers are byte *)
(* addresses, NULL is address 0.  A 32-bit value is the tuple of its four  *)
(* bytes, most significant first, so that 0xD00DFEED needs no wide integer.*)
(* A read outside the buffer is undefined behaviour in C++: it yields the  *)
(* byte `junk` where the address is mapped and ends the program (pc =      *)
(* "crashed") where it is not; Init chooses the junk byte and the buffer   *)
(* address, hence which of the outcomes a stray read has.                  *)
(***************************************************************************)
EXTENDS Integers, Sequences, FiniteSets, TLC

VARIABLES
    image,          \* [bytes, toks]: the caller's buffer, and the token list its producer serialised
    base,           \* address of the buffer's first byte
    littleEndian,   \* __BYTE_ORDER__ == __ORDER_LITTLE_ENDIAN__ of the build
    junk,           \* the byte found at mapped addresses outside the buffer
    fdt,            \* the FDT object: [m_node_token_start, m_fdt_header]
    pc,             \* "start", "idle", "walk", "done", "crashed"
    op,             \* the public operation in progress
    self,           \* the FdtNode the operation was called on (this)
    action,         \* the TraversalAction of the call
    token_ptr,      \* the cursor traverse_node advances (const uint32_t*&)
    stack,          \* active traverse_node calls, innermost last: [start_token, at]
    retval,         \* value of the traverse_node call that returned last
    result,         \* what the public operation handed back to its caller
    events,         \* hooks invoked during the call, in order: <<hook, token address>>
    oob,            \* the constructor or the call in progress read a byte outside the buffer
    nullRead,       \* the call in progress read through a null m_node_token_start / m_fdt_header
    reads,          \* the <<address, bytes>> ranges the call in progress has read
    other           \* with two threads: the frame of the thread that is not running

vars == <<image, base, littleEndian, junk, fdt, pc, op, self, action, token_ptr,
          stack, retval, result, events, oob, nullRead, reads, other>>

(***************************************************************************)
(* Bounds of the model                                                     *)
(***************************************************************************)
\* mapped bytes before and after the buffer
Slack == 8
\* longest node name of the name-matching family
MaxNameLen == 4
\* longest target name / unit address of the name-matching family
MaxTargetLen == 1
\* an offset or length that leaves every buffer of the model
FarAway == 4096

(***************************************************************************)
(* Program constants                                                       *)
(***************************************************************************)
NULL == 0
ALL_OK == 0
INVALID_STRUCTURE_BLOCK == -1

FDT_MAGIC      == <<208, 13, 254, 237>>     \* 0xD00DFEED
FDT_BEGIN_NODE == <<0, 0, 0, 1>>
FDT_END_NODE   == <<0, 0, 0, 2>>
FDT_PROP       == <<0, 0, 0, 3>>
FDT_NOP        == <<0, 0, 0, 4>>
FDT_END        == <<0, 0, 0, 9>>

\* sizeof(uint32_t), sizeof(fdt_prop_desc), and the byte offsets of the
\* fdt_header fields the library reads
SizeofWord       == 4
SizeofPropDesc   == 8
OffMagic         == 0
OffDtStruct      == 8
OffDtStrings     == 12
\* fdt_prop_desc: len at 0, nameoff at 4
OffLen           == 0
OffNameoff       == 4

\* '@' as the code writes it
AtSign == 64

\* a null const char* argument (no C string holds the byte -1)
NullStr == <<-1>>

\* FdtNode() = default: both members nullptr
InvalidNode == [m_node_token_start |-> NULL, m_fdt_header |-> NULL]

(***************************************************************************)
(* The producer's side: token lists and their serialisation.  This is the  *)
(* input of the library, laid out as the devicetree format prescribes; the *)
(* library's own readers are defined further down from its source.         *)
(***************************************************************************)
Word(n) == <<(n \div 16777216) % 256, (n \div 65536) % 256, (n \div 256) % 256, n % 256>>

Zeros(n) == [i \in 1..n |-> 0]

Pad4(s) == s \o Zeros((4 - (Len(s) % 4)) % 4)

TBegin(name)          == [tag |-> "BEGIN_NODE", name |-> name]
TEndNode              == [tag |-> "END_NODE"]
TProp(nameoff, val)   == [tag |-> "PROP", len |-> Len(val), nameoff |-> nameoff, val |-> val]
TPropLen(len, nameoff, val) == [tag |-> "PROP", len |-> len, nameoff |-> nameoff, val |-> val]
TNop                  == [tag |-> "NOP"]
TEnd                  == [tag |-> "END"]
TRaw(w)               == [tag |-> "RAW", word |-> w]
\* a node name that lacks its terminating NUL
TBeginRaw(name)       == [tag |-> "BEGIN_RAW", name |-> name]

EncTok(t) ==
    CASE t.tag = "BEGIN_NODE" -> FDT_BEGIN_NODE \o Pad4(t.name \o <<0>>)
      [] t.tag = "BEGIN_RAW"  -> FDT_BEGIN_NODE \o t.name
      [] t.tag = "END_NODE"   -> FDT_END_NODE
      [] t.tag = "PROP"       -> FDT_PROP \o Word(t.len) \o Word(t.nameoff) \o Pad4(t.val)
      [] t.tag = "NOP"        -> FDT_NOP
      [] t.tag = "END"        -> FDT_END
      [] t.tag = "RAW"        -> t.word

RECURSIVE EncToks(_)
EncToks(ts) == IF ts = <<>> THEN <<>> ELSE EncTok(Head(ts)) \o EncToks(Tail(ts))

\* offset of token i inside the structure block
TokOff(ts, i) == Len(EncToks(SubSeq(ts, 1, i - 1)))

\* sizeof(fdt_header): ten 4-byte fields
HeaderSize == 40

\* header | structure block | string block (no memory-reservation entries)
Serialise(ts, strs) ==
    LET struct == EncToks(ts)
        offStruct  == HeaderSize
        offStrings == offStruct + Len(struct)
        total      == offStrings + Len(strs)
    IN  FDT_MAGIC \o Word(total) \o Word(offStruct) \o Word(offStrings)
        \o Word(HeaderSize) \o Word(17) \o Word(16) \o Word(0)
        \o Word(Len(strs)) \o Word(Len(struct))
        \o struct \o strs

\* the bytes with the 4 bytes at offset `off` replaced by w
Patch(bytes, off, w) ==
    [i \in 1..Len(bytes) |-> IF i > off /\ i <= off + 4 THEN w[i - off] ELSE bytes[i]]

Image(ts, strs) == [bytes |-> Serialise(ts, strs), toks |-> ts, strs |-> strs, intact |-> TRUE]
Damaged(img, bytes) == [img EXCEPT !.bytes = bytes, !.intact = FALSE]

(***************************************************************************)
(* Memory as the library sees it                                           *)
(***************************************************************************)
BufLen == Len(image.bytes)

InBuffer(a) == a >= base /\ a < base + BufLen

Mapped(a) == a >= base - Slack /\ a < base + BufLen + Slack

Mem(a) == IF InBuffer(a) THEN image.bytes[a - base + 1] ELSE junk

\* a read of n bytes at address a, as <<a, n>>
RangeInBuffer(r) == r[2] = 0 \/ (InBuffer(r[1]) /\ InBuffer(r[1] + r[2] - 1))
RangeMapped(r)   == r[2] = 0 \/ (Mapped(r[1]) /\ Mapped(r[1] + r[2] - 1))

\* the reads of one step: does one of them hit an unmapped address, does one
\* of them leave the buffer
Faults(rd)  == \E r \in rd : ~RangeMapped(r)
Outside(rd) == \E r \in rd : ~RangeInBuffer(r)

(***************************************************************************)
(* 32-bit values: <<b3, b2, b1, b0>>, most significant byte first          *)
(***************************************************************************)
RECURSIVE BitAnd(_, _)
BitAnd(x, y) ==
    IF x = 0 \/ y = 0 THEN 0
    ELSE (IF x % 2 = 1 /\ y % 2 = 1 THEN 1 ELSE 0) + 2 * BitAnd(x \div 2, y \div 2)

RECURSIVE BitOr(_, _)
BitOr(x, y) ==
    IF x = 0 THEN y ELSE IF y = 0 THEN x
    ELSE (IF x % 2 = 1 \/ y % 2 = 1 THEN 1 ELSE 0) + 2 * BitOr(x \div 2, y \div 2)

And32(x, m) == [i \in 1..4 |-> BitAnd(x[i], m[i])]
Or32(x, y)  == [i \in 1..4 |-> BitOr(x[i], y[i])]
\* shifts by k whole bytes; the bytes shifted out of the 32 bits are lost
Shl32(x, k) == [i \in 1..4 |-> IF i + k <= 4 THEN x[i + k] ELSE 0]
Shr32(x, k) == [i \in 1..4 |-> IF i - k >= 1 THEN x[i - k] ELSE 0]

\* the value of a word as a number, for pointer arithmetic.  Values of 2^30
\* and more are all taken as 2^30: added to any pointer of the model each of
\* them gives an unmapped address, and the sum stays a machine integer of
\* TLC (size_t is 64 bits wide, the sum does not wrap in the code).
ToInt(w) ==
    IF w[1] >= 64 THEN 64 * 256 * 256 * 256
    ELSE ((w[1] * 256 + w[2]) * 256 + w[3]) * 256 + w[4]

\* *ptr: the host's native 4-byte load
NativeLoad(ptr) ==
    IF littleEndian
    THEN <<Mem(ptr + 3), Mem(ptr + 2), Mem(ptr + 1), Mem(ptr)>>
    ELSE <<Mem(ptr), Mem(ptr + 1), Mem(ptr + 2), Mem(ptr + 3)>>

\* faulty variant: the third term shifts left instead of right, so bits
\* 16..23 of the load are lost and never reach bits 8..15
read_value_lostByte(ptr) ==
    LET x == NativeLoad(ptr) IN
    IF littleEndian
    THEN Or32(Or32(Shl32(And32(x, <<0, 0, 0, 255>>), 3), Shl32(And32(x, <<0, 0, 255, 0>>), 1)),
              Or32(Shl32(And32(x, <<0, 255, 0, 0>>), 1), Shr32(And32(x, <<255, 0, 0, 0>>), 3)))
    ELSE x

read_value(ptr) ==
    LET x == NativeLoad(ptr) IN
    IF littleEndian
    THEN Or32(Or32(Shl32(And32(x, <<0, 0, 0, 255>>), 3), Shl32(And32(x, <<0, 0, 255, 0>>), 1)),
              Or32(Shr32(And32(x, <<0, 255, 0, 0>>), 1), Shr32(And32(x, <<255, 0, 0, 0>>), 3)))
    ELSE x

(***************************************************************************)
(* Utilities.  A string argument that lives in the buffer is an address;   *)
(* a string the caller passes (a target name) is a sequence of bytes, its  *)
(* terminating NUL implied.  Each function returns its C++ result r and    *)
(* the number n of bytes it read from memory, starting at its first        *)
(* argument; a scan that reaches an unmapped byte stops there (the read    *)
(* faults).                                                                *)
(***************************************************************************)
CharAt(str, i) == IF i < Len(str) THEN str[i + 1] ELSE 0

RECURSIVE StrcmpFrom(_, _, _)
StrcmpFrom(str1, str2, i) ==
    IF ~Mapped(str1 + i) THEN [r |-> 0, n |-> i + 1]
    ELSE LET a == Mem(str1 + i)
             b == CharAt(str2, i)
         IN  IF a = 0 /\ b = 0 THEN [r |-> 0, n |-> i + 1]
             ELSE IF a < b THEN [r |-> -1, n |-> i + 1]
             ELSE IF a > b THEN [r |-> 1, n |-> i + 1]
             ELSE StrcmpFrom(str1, str2, i + 1)

\* faulty variant: equal as soon as str2 ends (str2 a prefix of str1)
Utilities_strcmp_prefix(str1, str2) ==
    LET full == StrcmpFrom(str1, str2, 0)
    IN  IF full.r = 1 /\ CharAt(str2, full.n - 1) = 0 THEN [full EXCEPT !.r = 0] ELSE full

Utilities_strcmp(str1, str2) == StrcmpFrom(str1, str2, 0)

RECURSIVE StrncmpFrom(_, _, _, _)
StrncmpFrom(str1, str2, n, i) ==
    IF i >= n THEN [r |-> 0, n |-> i]
    ELSE IF ~Mapped(str1 + i) THEN [r |-> 0, n |-> i + 1]
    ELSE LET a == Mem(str1 + i)
             b == CharAt(str2, i)
         IN  IF a = 0 /\ b = 0 THEN [r |-> 0, n |-> i + 1]
             ELSE IF a < b THEN [r |-> -1, n |-> i + 1]
             ELSE IF a > b THEN [r |-> 1, n |-> i + 1]
             ELSE StrncmpFrom(str1, str2, n, i + 1)

Utilities_strncmp(str1, str2, n) == StrncmpFrom(str1, str2, n, 0)

RECURSIVE StrlenFrom(_, _)
StrlenFrom(str, i) ==
    IF ~Mapped(str + i) THEN i
    ELSE IF Mem(str + i) = 0 THEN i
    ELSE StrlenFrom(str, i + 1)

\* reads the bytes str .. str + result
Utilities_strlen(str) == StrlenFrom(str, 0)

RECURSIVE StrchrFrom(_, _, _)
StrchrFrom(str, c, i) ==
    IF ~Mapped(str + i) THEN [r |-> NULL, n |-> i + 1]
    ELSE LET v == Mem(str + i)
         IN  IF v = 0 THEN [r |-> NULL, n |-> i + 1]
             ELSE IF v = c THEN [r |-> str + i, n |-> i + 1]
             ELSE StrchrFrom(str, c, i + 1)

Utilities_strchr(str, c) == StrchrFrom(str, c, 0)

(***************************************************************************)
(* FdtEngine: the cursor.  Results that depend on memory come with the set *)
(* rd of the reads <<address, bytes>> they made.                           *)
(***************************************************************************)
\* faulty variant: the offset is not rounded up to a whole word
get_aligned_after_offset_truncating(ptr, offset) ==
    ptr + SizeofWord * (offset \div SizeofWord)

get_aligned_after_offset(ptr, offset) ==
    ptr + SizeofWord * ((offset \div SizeofWord) + (IF offset % SizeofWord # 0 THEN 1 ELSE 0))

\* faulty variant: FDT_END is stepped over like FDT_NOP
move_to_next_token_pastEnd(ptr) ==
    LET token == read_value(ptr)
        next  == ptr + SizeofWord
    IN  IF token = FDT_BEGIN_NODE THEN
            LET str_size == Utilities_strlen(next)
            IN  [ptr |-> IF str_size # 0
                         THEN get_aligned_after_offset(next, str_size + 1)
                         ELSE next + SizeofWord,
                 rd  |-> {<<ptr, SizeofWord>>, <<next, str_size + 1>>}]
        ELSE IF token = FDT_END_NODE THEN
            [ptr |-> next, rd |-> {<<ptr, SizeofWord>>}]
        ELSE IF token = FDT_PROP THEN
            LET prop_length == ToInt(read_value(next + OffLen))
            IN  [ptr |-> get_aligned_after_offset(next, SizeofPropDesc + prop_length),
                 rd  |-> {<<ptr, SizeofWord>>, <<next + OffLen, SizeofWord>>}]
        ELSE IF token \in {FDT_NOP, FDT_END} THEN
            [ptr |-> next, rd |-> {<<ptr, SizeofWord>>}]
        ELSE
            [ptr |-> ptr, rd |-> {<<ptr, SizeofWord>>}]

move_to_next_token(ptr) ==
    LET token == read_value(ptr)
        next  == ptr + SizeofWord
    IN  IF token = FDT_BEGIN_NODE THEN
            LET str_size == Utilities_strlen(next)
            IN  [ptr |-> IF str_size # 0
                         THEN get_aligned_after_offset(next, str_size + 1)
                         ELSE next + SizeofWord,
                 rd  |-> {<<ptr, SizeofWord>>, <<next, str_size + 1>>}]
        ELSE IF token = FDT_END_NODE THEN
            [ptr |-> next, rd |-> {<<ptr, SizeofWord>>}]
        ELSE IF token = FDT_PROP THEN
            LET prop_length == ToInt(read_value(next + OffLen))
            IN  [ptr |-> get_aligned_after_offset(next, SizeofPropDesc + prop_length),
                 rd  |-> {<<ptr, SizeofWord>>, <<next + OffLen, SizeofWord>>}]
        ELSE IF token = FDT_NOP THEN
            [ptr |-> next, rd |-> {<<ptr, SizeofWord>>}]
        ELSE
            [ptr |-> ptr, rd |-> {<<ptr, SizeofWord>>}]

get_structure_block_ptr(header) == header + ToInt(read_value(header + OffDtStruct))

get_string_block_ptr(header) == header + ToInt(read_value(header + OffDtStrings))

(***************************************************************************)
(* FdtNode and the visitors                                                *)
(***************************************************************************)
FdtNode(first_token, fdt_header) ==
    [m_node_token_start |-> first_token, m_fdt_header |-> fdt_header]

is_valid(node) == node.m_fdt_header # NULL /\ node.m_node_token_start # NULL

\* faulty variant: the alignment of the header is not checked
FDT_unaligned(fdt_ptr) ==
    IF read_value(fdt_ptr + OffMagic) = FDT_MAGIC
    THEN [node |-> [m_node_token_start |-> fdt_ptr + ToInt(read_value(fdt_ptr + OffDtStruct)),
                    m_fdt_header |-> fdt_ptr],
          rd   |-> {<<fdt_ptr + OffMagic, SizeofWord>>, <<fdt_ptr + OffDtStruct, SizeofWord>>}]
    ELSE [node |-> InvalidNode, rd |-> {<<fdt_ptr + OffMagic, SizeofWord>>}]

\* FDT::FDT(const fdt_header* fdt): the object built, and the reads made
FDT(fdt_ptr) ==
    IF fdt_ptr % 8 = 0 THEN
        IF read_value(fdt_ptr + OffMagic) = FDT_MAGIC
        THEN [node |-> FdtNode(get_structure_block_ptr(fdt_ptr), fdt_ptr),
              rd   |-> {<<fdt_ptr + OffMagic, SizeofWord>>, <<fdt_ptr + OffDtStruct, SizeofWord>>}]
        ELSE [node |-> InvalidNode, rd |-> {<<fdt_ptr + OffMagic, SizeofWord>>}]
    ELSE [node |-> InvalidNode, rd |-> {}]

NodeFinder(node_name, unit_address) ==
    [kind |-> "NodeFinder", m_result |-> InvalidNode,
     m_node_name |-> node_name, m_unit_address |-> unit_address]

PropertyFinder(to_look_for) ==
    [kind |-> "PropertyFinder", m_result |-> NULL, m_looked_property |-> to_look_for,
     m_property_length |-> 0, m_property_found |-> FALSE]

StructValidator == [kind |-> "StructValidator"]

\* faulty variant: without a unit address only the first strlen(m_node_name) bytes
\* of the node's name are compared
is_same_as_firstBytes(act, node_string) ==
    IF node_string # NULL /\ act.m_node_name # NullStr /\ act.m_unit_address = NullStr THEN
        LET cmp == Utilities_strncmp(node_string, act.m_node_name, Len(act.m_node_name))
        IN  [r |-> cmp.r = 0, rd |-> {<<node_string, cmp.n>>}]
    ELSE [r |-> FALSE, rd |-> {}]

\* NodeFinder::is_same_as: [r |-> the answer, rd |-> the reads]
is_same_as(act, node_string) ==
    IF node_string # NULL /\ act.m_node_name # NullStr THEN
        IF act.m_unit_address # NullStr THEN
            LET at_loc == Utilities_strchr(node_string, AtSign)
            IN  IF at_loc.r # NULL THEN
                    LET node_name_length == at_loc.r - node_string
                        cmp1 == Utilities_strncmp(node_string, act.m_node_name, node_name_length)
                    IN  IF cmp1.r = 0 THEN
                            LET cmp2 == Utilities_strcmp(at_loc.r + 1, act.m_unit_address)
                            IN  [r  |-> cmp2.r = 0,
                                 rd |-> {<<node_string, at_loc.n>>, <<node_string, cmp1.n>>,
                                         <<at_loc.r + 1, cmp2.n>>}]
                        ELSE [r |-> FALSE, rd |-> {<<node_string, at_loc.n>>, <<node_string, cmp1.n>>}]
                ELSE [r |-> FALSE, rd |-> {<<node_string, at_loc.n>>}]
        ELSE
            LET cmp == Utilities_strcmp(node_string, act.m_node_name)
            IN  [r |-> cmp.r = 0, rd |-> {<<node_string, cmp.n>>}]
    ELSE [r |-> FALSE, rd |-> {}]

\* the hooks: [act |-> the visitor afterwards, rd |-> the reads, hdr |-> whether
\* the header was dereferenced]
NodeFinder_on_FDT_BEGIN_NODE(act, header, token) ==
    IF act.m_node_name # NullStr THEN
        LET same == is_same_as(act, token + SizeofWord)
        IN  [act |-> IF same.r THEN [act EXCEPT !.m_result = FdtNode(token, header)] ELSE act,
             rd  |-> same.rd, hdr |-> FALSE]
    ELSE [act |-> act, rd |-> {}, hdr |-> FALSE]

\* PropertyFinder::on_FDT_PROP_NODE up to its comparison: the name found
\* through nameoff in the string block is compared with the looked-for name
PropertyNameCompare(act, header, token) ==
    LET property_descriptor == token + SizeofWord
        nameoff       == ToInt(read_value(property_descriptor + OffNameoff))
        property_name == get_string_block_ptr(header) + nameoff
        cmp           == Utilities_strcmp(property_name, act.m_looked_property)
    IN  [r   |-> cmp.r,
         len |-> ToInt(read_value(property_descriptor + OffLen)),
         rd  |-> {<<header + OffDtStrings, SizeofWord>>,
                  <<property_descriptor + OffNameoff, SizeofWord>>,
                  <<property_name, cmp.n>>},
         rdLen |-> {<<property_descriptor + OffLen, SizeofWord>>}]

\* faulty variant: the value is taken to start right after the descriptor's 8 bytes,
\* the tag forgotten
PropertyFinder_valueAfterDescriptorOnly(act, header, token) ==
    LET c == PropertyNameCompare(act, header, token)
    IN  IF c.r = 0
        THEN [act |-> [act EXCEPT !.m_property_length = c.len,
                                  !.m_result = IF c.len # 0 THEN token + SizeofPropDesc ELSE @,
                                  !.m_property_found = TRUE],
              rd  |-> c.rd \cup c.rdLen, hdr |-> TRUE]
        ELSE [act |-> act, rd |-> c.rd, hdr |-> TRUE]

\* faulty variant: m_property_found is set inside if(m_property_length)
PropertyFinder_foundOnlyIfNotEmpty(act, header, token) ==
    LET c == PropertyNameCompare(act, header, token)
    IN  IF c.r = 0
        THEN [act |-> [act EXCEPT !.m_property_length = c.len,
                                  !.m_result = IF c.len # 0
                                               THEN token + SizeofWord * ((SizeofPropDesc \div SizeofWord) + 1)
                                               ELSE @,
                                  !.m_property_found = (c.len # 0)],
              rd  |-> c.rd \cup c.rdLen, hdr |-> TRUE]
        ELSE [act |-> act, rd |-> c.rd, hdr |-> TRUE]

PropertyFinder_on_FDT_PROP_NODE(act, header, token) ==
    LET c == PropertyNameCompare(act, header, token)
    IN  IF c.r = 0
        THEN [act |-> [act EXCEPT !.m_property_length = c.len,
                                  !.m_result = IF c.len # 0
                                               THEN token + SizeofWord * ((SizeofPropDesc \div SizeofWord) + 1)
                                               ELSE @,
                                  !.m_property_found = TRUE],
              rd  |-> c.rd \cup c.rdLen, hdr |-> TRUE]
        ELSE [act |-> act, rd |-> c.rd, hdr |-> TRUE]

NoHook(act) == [act |-> act, rd |-> {}, hdr |-> FALSE]

on_FDT_BEGIN_NODE(act, header, token) ==
    IF act.kind = "NodeFinder" THEN NodeFinder_on_FDT_BEGIN_NODE(act, header, token) ELSE NoHook(act)

on_FDT_PROP_NODE(act, header, token) ==
    IF act.kind = "PropertyFinder" THEN PropertyFinder_on_FDT_PROP_NODE(act, header, token) ELSE NoHook(act)

on_FDT_END_NODE(act, header, token) == NoHook(act)

on_FDT_NOP_NODE(act, header, token) == NoHook(act)

\* faulty variant: PropertyFinder does not override is_action_satisfied
is_action_satisfied_nodeOnly(act) ==
    act.kind = "NodeFinder" /\ is_valid(act.m_result)

is_action_satisfied(act) ==
    CASE act.kind = "NodeFinder"     -> is_valid(act.m_result)
      [] act.kind = "PropertyFinder" -> act.m_property_found
      [] OTHER                       -> FALSE

(***************************************************************************)
(* The buffers of the model                                                *)
(***************************************************************************)
Compatible == <<99, 111, 109, 112, 97, 116, 105, 98, 108, 101>>   \* "compatible"
Reg        == <<114, 101, 103>>                                   \* "reg"
Status     == <<115, 116, 97, 116, 117, 115>>      \* "status": in no string block
\* "compatible\0reg\0"
StrBlock == Compatible \o <<0>> \o Reg \o <<0>>
NameOffCompatible == Len(<<>>)
NameOffReg        == Len(Compatible) + 1

AcmeWidget == <<97, 99, 109, 101, 44, 119, 105, 100, 103, 101, 116>>   \* "acme,widget"
Child      == <<99, 104, 105, 108, 100>>            \* "child"
ChildAt1   == <<99, 104, 105, 108, 100, 64, 49>>    \* "child@1"
NameA      == <<97>>
NameB      == <<98>>
Foo        == <<102, 111, 111>>
FoAt1      == <<102, 111, 64, 49>>                  \* "fo@1"
FooAt1     == <<102, 111, 111, 64, 49>>             \* "foo@1"
One        == <<49>>
Missing    == <<120>>                               \* "x"

\* / { compatible = "acme,widget"; child@1 { }; };
TreeWidget ==
    <<TBegin(<<>>), TProp(NameOffCompatible, AcmeWidget), TBegin(ChildAt1), TEndNode,
      TEndNode, TEnd>>

\* / { a { <nop> b { reg; }; }; b { compatible = <5 bytes>; }; };
TreeNested ==
    <<TBegin(<<>>), TBegin(NameA), TNop, TBegin(NameB), TProp(NameOffReg, <<>>), TEndNode,
      TEndNode, TBegin(NameB), TProp(NameOffCompatible, <<1, 2, 3, 4, 5>>), TEndNode,
      TEndNode, TEnd>>

\* / { fo@1 { }; foo@1 { reg = <4 bytes>; }; };
TreeUnits ==
    <<TBegin(<<>>), TBegin(FoAt1), TEndNode, TBegin(FooAt1), TProp(NameOffReg, <<0, 0, 0, 1>>),
      TEndNode, TEndNode, TEnd>>

\* / { a { reg = <2 bytes>; b { reg = <1 byte>; }; }; };
TreeRegs ==
    <<TBegin(<<>>), TBegin(NameA), TProp(NameOffReg, <<7, 7>>), TBegin(NameB),
      TProp(NameOffReg, <<9>>), TEndNode, TEndNode, TEndNode, TEnd>>

WellFormedImages ==
    {Image(TreeWidget, StrBlock), Image(TreeNested, StrBlock), Image(TreeUnits, StrBlock),
     Image(TreeRegs, StrBlock)}


MalformedImages ==
    { \* the structure block starts with END_NODE
      Image(<<TEndNode, TEnd>>, <<>>),
      \* END while a nested node is open
      Image(<<TBegin(<<>>), TBegin(NameA), TEnd>>, <<>>),
      \* END while the root itself is open
      Image(<<TBegin(<<>>), TNop, TEnd>>, <<>>),
      \* an unknown tag
      Image(<<TBegin(<<>>), TRaw(<<0, 0, 0, 7>>), TEndNode, TEnd>>, <<>>),
      \* a token between the root's END_NODE and END
      Image(<<TBegin(<<>>), TEndNode, TNop, TEnd>>, <<>>),
      \* a second node after the root's END_NODE
      Image(<<TBegin(<<>>), TEndNode, TBegin(NameA), TEndNode, TEnd>>, <<>>),
      \* the stream stops while the root is open: no END_NODE, no END
      Image(<<TBegin(<<>>), TBegin(NameA), TEndNode>>, <<>>),
      \* a property whose nameoff lies outside the buffer
      Image(<<TBegin(<<>>), TProp(FarAway, <<1, 2, 3, 4>>), TEndNode, TEnd>>, StrBlock),
      \* a property whose len runs over the end of the buffer
      Image(<<TBegin(<<>>), TPropLen(FarAway, NameOffReg, <<>>), TEndNode, TEnd>>, StrBlock),
      \* a node name with no terminating NUL before the buffer ends
      Image(<<TBegin(<<>>), TBeginRaw(<<97, 98, 99, 100>>)>>, <<>>) }

DamagedImages ==
    LET good == Image(TreeWidget, StrBlock)
    IN  { \* not a device tree: wrong magic
          Damaged(good, Patch(good.bytes, OffMagic, <<0, 0, 0, 0>>)),
          \* off_dt_struct points outside the buffer
          Damaged(good, Patch(good.bytes, OffDtStruct, Word(FarAway))),
          \* a buffer cut after two bytes
          Damaged(good, SubSeq(good.bytes, 1, 2)) }

Images == WellFormedImages \cup MalformedImages \cup DamagedImages

\* the grammar of the structure block: tree := node END
RECURSIVE Balanced(_, _, _)
Balanced(ts, i, depth) ==
    IF i > Len(ts) THEN FALSE
    ELSE LET t == ts[i]
         IN  CASE t.tag = "BEGIN_NODE" -> (i = 1 \/ depth > 0) /\ Balanced(ts, i + 1, depth + 1)
               [] t.tag = "END_NODE"   -> depth > 0 /\ Balanced(ts, i + 1, depth - 1)
               [] t.tag \in {"PROP", "NOP"} -> depth > 0 /\ Balanced(ts, i + 1, depth)
               [] t.tag = "END"        -> depth = 0 /\ i > 1 /\ i = Len(ts)
               [] OTHER                -> FALSE

\* the string at offset off of the string block, up to its NUL
RECURSIVE StringAt(_, _)
StringAt(strs, off) ==
    IF off + 1 > Len(strs) \/ strs[off + 1] = 0 THEN <<>>
    ELSE <<strs[off + 1]>> \o StringAt(strs, off + 1)

PropWellFormed(img, t) ==
    /\ t.len = Len(t.val)
    /\ \E k \in (t.nameoff + 1)..Len(img.strs) : img.strs[k] = 0

WellFormed(img) ==
    /\ img.intact
    /\ Balanced(img.toks, 1, 0)
    /\ \A i \in 1..Len(img.toks) : img.toks[i].tag = "PROP" => PropWellFormed(img, img.toks[i])

\* the address of token i of the producer's list
TokAddr(i) == base + HeaderSize + TokOff(image.toks, i)

(***************************************************************************)
(* Arguments the callers of the model pass                                 *)
(***************************************************************************)
Bases     == {8, 12, 16}
JunkBytes == {0, 1}

NodeTargets ==
    { <<Child, One>>, <<Child, NullStr>>, <<ChildAt1, NullStr>>, <<NameA, NullStr>>,
      <<NameB, NullStr>>,
      <<Foo, One>>, <<<<>>, NullStr>>, <<Missing, NullStr>>, <<NullStr, NullStr>> }

PropertyTargets == {Compatible, Reg, Status}

NoResult == [kind |-> "none"]
NoAction == [kind |-> "none"]
\* a program with a single thread
NoThreads == [phase |-> "single"]

Init ==
    /\ image \in Images
    /\ base \in Bases
    /\ littleEndian \in BOOLEAN
    /\ junk \in JunkBytes
    /\ fdt = InvalidNode
    /\ pc = "start"
    /\ op = "none"
    /\ self = InvalidNode
    /\ action = NoAction
    /\ token_ptr = NULL
    /\ stack = <<>>
    /\ retval = ALL_OK
    /\ result = NoResult
    /\ events = <<>>
    /\ oob = FALSE
    /\ nullRead = FALSE
    /\ reads = {}
    /\ other = NoThreads

(***************************************************************************)
(* The operations                                                          *)
(***************************************************************************)
config == <<image, base, littleEndian, junk>>

\* a step whose reads hit an unmapped address ends the program
Crash(nul) ==
    /\ pc' = "crashed"
    /\ oob' = TRUE
    /\ nullRead' = (nullRead \/ nul)
    /\ UNCHANGED <<config, fdt, op, self, action, token_ptr, stack, retval, result, events,
                   reads, other>>

\* FDT fdt(buffer)
Open ==
    /\ pc = "start"
    /\ LET c == FDT(base)
       IN  IF Faults(c.rd) THEN Crash(FALSE)
           ELSE /\ fdt' = c.node
                /\ pc' = "idle"
                /\ oob' = (oob \/ Outside(c.rd))
                /\ UNCHANGED <<config, op, self, action, token_ptr, stack, retval, result,
                               events, nullRead, reads, other>>

\* the FdtNode objects a caller can hold: the FDT, a default-constructed node,
\* nodes built with the public constructor from one null argument, and the
\* node the last get_sub_node returned
Handles ==
    {fdt, InvalidNode, FdtNode(fdt.m_node_token_start, NULL), FdtNode(NULL, fdt.m_fdt_header)}
    \cup (IF pc = "done" /\ result.kind = "get_sub_node" THEN {result.val} ELSE {})

\* faulty variant: the walk starts at the loop, on the token behind the
\* handle's own BEGIN_NODE, so the handle's node is never offered to the visitor
Call_belowHandle(name, h, act) ==
    /\ pc \in {"idle", "done"}
    /\ pc' = "walk"
    /\ op' = name
    /\ self' = h
    /\ action' = act
    /\ token_ptr' = move_to_next_token(h.m_node_token_start).ptr
    /\ stack' = <<[start_token |-> h.m_node_token_start, at |-> "loop"]>>
    /\ retval' = ALL_OK
    /\ result' = NoResult
    /\ events' = <<>>
    /\ oob' = FALSE
    /\ nullRead' = FALSE
    /\ reads' = {}
    /\ UNCHANGED <<config, fdt, other>>

\* the public operation `name` starts on node h with visitor act: the local
\* token_ptr is a copy of h.m_node_token_start
Call(name, h, act) ==
    /\ pc \in {"idle", "done"}
    /\ pc' = "walk"
    /\ op' = name
    /\ self' = h
    /\ action' = act
    /\ token_ptr' = h.m_node_token_start
    /\ stack' = <<[start_token |-> h.m_node_token_start, at |-> "entry"]>>
    /\ retval' = ALL_OK
    /\ result' = NoResult
    /\ events' = <<>>
    /\ oob' = FALSE
    /\ nullRead' = FALSE
    /\ reads' = {}
    /\ UNCHANGED <<config, fdt, other>>

get_sub_node ==
    \E h \in Handles, t \in NodeTargets : Call("get_sub_node", h, NodeFinder(t[1], t[2]))

get_property ==
    \E h \in Handles, p \in PropertyTargets : Call("get_property", h, PropertyFinder(p))

has_property ==
    \E h \in Handles, p \in PropertyTargets : Call("has_property", h, PropertyFinder(p))

\* FdtEngine::traverse_node called directly, from any token of the stream,
\* with a visitor that is never satisfied
traverse_node ==
    \E i \in 1..Len(image.toks) :
        Call("traverse_node", FdtNode(TokAddr(i), base), StructValidator)

top    == stack[Len(stack)]
header == self.m_fdt_header

SetTop(at) == [stack EXCEPT ![Len(stack)].at = at]

\* the effect of one step of the walk that read rd, dereferenced the header
\* iff hdr, and otherwise changed the walk as the arguments say
Step(rd, nul, act, ptr, stk, rv, evs) ==
    IF Faults(rd) THEN Crash(nul)
    ELSE /\ action' = act
         /\ token_ptr' = ptr
         /\ stack' = stk
         /\ retval' = rv
         /\ events' = evs
         /\ oob' = (oob \/ Outside(rd))
         /\ nullRead' = (nullRead \/ nul)
         /\ reads' = reads \cup rd
         /\ UNCHANGED <<config, fdt, pc, op, self, result, other>>

\* traverse_node, from its entry to the head of its loop; `otherwise` is the
\* value returned when the first token is not FDT_BEGIN_NODE
EnterReturning(otherwise) ==
    /\ pc = "walk" /\ stack # <<>> /\ top.at = "entry"
    /\ LET token == read_value(token_ptr)
           hook  == on_FDT_BEGIN_NODE(action, header, token_ptr)
           mv    == move_to_next_token(token_ptr)
       IN  IF token = FDT_BEGIN_NODE
           THEN Step({<<token_ptr, SizeofWord>>} \cup hook.rd \cup mv.rd,
                     token_ptr = NULL \/ (hook.hdr /\ header = NULL),
                     hook.act, mv.ptr, SetTop("loop"), retval,
                     Append(events, <<"BEGIN_NODE", token_ptr>>))
           ELSE Step({<<token_ptr, SizeofWord>>}, token_ptr = NULL,
                     action, token_ptr, SetTop("return"), otherwise, events)

\* faulty variant: the function's last line returns ALL_OK
Enter_returnsOk == EnterReturning(ALL_OK)

Enter == EnterReturning(INVALID_STRUCTURE_BLOCK)

InLoop == pc = "walk" /\ stack # <<>> /\ top.at = "loop"

\* if(action.is_action_satisfied()) return ALL_OK;
Satisfied ==
    /\ InLoop /\ is_action_satisfied(action)
    /\ Step({}, FALSE, action, token_ptr, SetTop("return"), ALL_OK, events)

Unsatisfied(tag) == InLoop /\ ~is_action_satisfied(action) /\ read_value(token_ptr) = tag

\* case FDT_BEGIN_NODE: the recursive call
\* faulty variant: a nested node ends the walk of the node that holds it
BeginNodeCase_stopsAtChild ==
    /\ Unsatisfied(FDT_BEGIN_NODE)
    /\ Step({<<token_ptr, SizeofWord>>}, token_ptr = NULL, action, token_ptr,
            SetTop("return"), ALL_OK, events)

BeginNodeCase ==
    /\ Unsatisfied(FDT_BEGIN_NODE)
    /\ Step({<<token_ptr, SizeofWord>>}, token_ptr = NULL, action, token_ptr,
            Append(stack, [start_token |-> token_ptr, at |-> "entry"]), retval, events)

\* faulty variant: END_NODE never returns, whichever node the call started at
EndNodeCase_neverReturns ==
    /\ Unsatisfied(FDT_END_NODE)
    /\ LET hook == on_FDT_END_NODE(action, header, token_ptr)
           mv   == move_to_next_token(token_ptr)
       IN  Step({<<token_ptr, SizeofWord>>, <<header + OffDtStruct, SizeofWord>>}
                    \cup hook.rd \cup mv.rd,
                token_ptr = NULL \/ header = NULL,
                hook.act, mv.ptr, stack, retval,
                Append(events, <<"END_NODE", token_ptr>>))

EndNodeCase ==
    /\ Unsatisfied(FDT_END_NODE)
    /\ LET hook == on_FDT_END_NODE(action, header, token_ptr)
           mv   == move_to_next_token(token_ptr)
       IN  Step({<<token_ptr, SizeofWord>>, <<header + OffDtStruct, SizeofWord>>}
                    \cup hook.rd \cup mv.rd,
                token_ptr = NULL \/ header = NULL,
                hook.act, mv.ptr,
                IF top.start_token # get_structure_block_ptr(header)
                THEN SetTop("return") ELSE stack,
                IF top.start_token # get_structure_block_ptr(header)
                THEN ALL_OK ELSE retval,
                Append(events, <<"END_NODE", token_ptr>>))

\* faulty variant: properties are stepped over without a call of the hook
PropCase_noHook ==
    /\ Unsatisfied(FDT_PROP)
    /\ LET mv == move_to_next_token(token_ptr)
       IN  Step({<<token_ptr, SizeofWord>>} \cup mv.rd, token_ptr = NULL,
                action, mv.ptr, stack, retval, events)

PropCase ==
    /\ Unsatisfied(FDT_PROP)
    /\ LET hook == on_FDT_PROP_NODE(action, header, token_ptr)
           mv   == move_to_next_token(token_ptr)
       IN  Step({<<token_ptr, SizeofWord>>} \cup hook.rd \cup mv.rd,
                token_ptr = NULL \/ (hook.hdr /\ header = NULL),
                hook.act, mv.ptr, stack, retval,
                Append(events, <<"PROP", token_ptr>>))

\* faulty variant: the cursor stays on the NOP
NopCase_spins ==
    /\ Unsatisfied(FDT_NOP)
    /\ UNCHANGED vars

NopCase ==
    /\ Unsatisfied(FDT_NOP)
    /\ LET hook == on_FDT_NOP_NODE(action, header, token_ptr)
           mv   == move_to_next_token(token_ptr)
       IN  Step({<<token_ptr, SizeofWord>>} \cup hook.rd \cup mv.rd,
                token_ptr = NULL,
                hook.act, mv.ptr, stack, retval,
                Append(events, <<"NOP", token_ptr>>))

\* faulty variant: FDT_END ends every call with ALL_OK, wherever it started
EndCase_alwaysOk ==
    /\ Unsatisfied(FDT_END)
    /\ Step({<<token_ptr, SizeofWord>>, <<header + OffDtStruct, SizeofWord>>},
            token_ptr = NULL \/ header = NULL,
            action, token_ptr, SetTop("return"), ALL_OK, events)

\* case FDT_END: valid only for the call that started at the structure block
EndCase ==
    /\ Unsatisfied(FDT_END)
    /\ Step({<<token_ptr, SizeofWord>>, <<header + OffDtStruct, SizeofWord>>},
            token_ptr = NULL \/ header = NULL,
            action, token_ptr, SetTop("return"),
            IF top.start_token = get_structure_block_ptr(header)
            THEN ALL_OK ELSE INVALID_STRUCTURE_BLOCK,
            events)

DefaultCase ==
    /\ InLoop /\ ~is_action_satisfied(action)
    /\ read_value(token_ptr) \notin {FDT_BEGIN_NODE, FDT_END_NODE, FDT_PROP, FDT_NOP, FDT_END}
    /\ Step({<<token_ptr, SizeofWord>>}, token_ptr = NULL,
            action, token_ptr, SetTop("return"), INVALID_STRUCTURE_BLOCK, events)

\* faulty variant: the caller goes on with its loop whatever the nested call returned
Return_swallowsStatus ==
    /\ pc = "walk" /\ Len(stack) > 1 /\ top.at = "return"
    /\ stack' = [SubSeq(stack, 1, Len(stack) - 1) EXCEPT ![Len(stack) - 1].at = "loop"]
    /\ UNCHANGED <<config, fdt, pc, op, self, action, token_ptr, retval, result, events,
                   oob, nullRead, reads, other>>

\* faulty variant: the caller returns whatever the nested call returned,
\* ALL_OK included
Return_whateverNested ==
    /\ pc = "walk" /\ Len(stack) > 1 /\ top.at = "return"
    /\ stack' = [SubSeq(stack, 1, Len(stack) - 1) EXCEPT ![Len(stack) - 1].at = "return"]
    /\ UNCHANGED <<config, fdt, pc, op, self, action, token_ptr, retval, result, events,
                   oob, nullRead, reads, other>>

\* a nested traverse_node returns into its caller's case FDT_BEGIN_NODE:
\* if(retval != ALL_OK) return retval; break;
Return ==
    /\ pc = "walk" /\ Len(stack) > 1 /\ top.at = "return"
    /\ stack' = [SubSeq(stack, 1, Len(stack) - 1) EXCEPT ![Len(stack) - 1].at =
                    IF retval # ALL_OK THEN "return" ELSE "loop"]
    /\ UNCHANGED <<config, fdt, pc, op, self, action, token_ptr, retval, result, events,
                   oob, nullRead, reads, other>>

\* the outermost traverse_node returns and the public operation hands back
\* what its visitor holds (get_sub_node, get_property and has_property drop
\* the status)
Returned(name, act, status) ==
    CASE name = "get_sub_node"  -> [kind |-> name, val |-> act.m_result]
      [] name = "get_property"  -> [kind |-> name, val |-> act.m_result]
      [] name = "has_property"  -> [kind |-> name, val |-> act.m_property_found]
      [] name = "traverse_node" -> [kind |-> name, val |-> status]

\* faulty variant: traverse_node is given the handle's own m_node_token_start
\* instead of a copy, so the handle is left where the walk stopped
Finish_movesHandle ==
    /\ pc = "walk" /\ Len(stack) = 1 /\ top.at = "return"
    /\ pc' = "done"
    /\ stack' = <<>>
    /\ result' = Returned(op, action, retval)
    /\ self' = [self EXCEPT !.m_node_token_start = token_ptr]
    /\ fdt' = IF self = fdt THEN [fdt EXCEPT !.m_node_token_start = token_ptr] ELSE fdt
    /\ UNCHANGED <<config, op, action, token_ptr, retval, events, oob, nullRead,
                   reads, other>>

Finish ==
    /\ pc = "walk" /\ Len(stack) = 1 /\ top.at = "return"
    /\ pc' = "done"
    /\ stack' = <<>>
    /\ result' = Returned(op, action, retval)
    /\ UNCHANGED <<config, fdt, op, self, action, token_ptr, retval, events, oob, nullRead,
                   reads, other>>

Next ==
    \/ Open
    \/ get_sub_node
    \/ get_property
    \/ has_property
    \/ traverse_node
    \/ Enter
    \/ Satisfied
    \/ BeginNodeCase
    \/ EndNodeCase
    \/ PropCase
    \/ NopCase
    \/ EndCase
    \/ DefaultCase
    \/ Return
    \/ Finish

Spec == Init /\ [][Next]_vars

\* a call that has started runs on: the program has one thread and the walk
\* neither blocks nor yields
WalkStep ==
    \/ Enter
    \/ Satisfied
    \/ BeginNodeCase
    \/ EndNodeCase
    \/ PropCase
    \/ NopCase
    \/ EndCase
    \/ DefaultCase
    \/ Return
    \/ Finish

\* one host: an aligned buffer, little-endian, zero bytes behind the buffer
InitWalks ==
    /\ Init
    /\ base = CHOOSE b \in Bases : b % 8 = 0
    /\ littleEndian
    /\ junk = 0

SpecWalksFair == InitWalks /\ [][Next]_vars /\ WF_vars(WalkStep)

(***************************************************************************)
(* Name matching: every node name over a small alphabet against every      *)
(* target name and unit address.  The buffer holds / { <name> { }; } and   *)
(* get_sub_node is called on an FdtNode placed at the named node, so the   *)
(* node itself is the only candidate of the walk.                          *)
(***************************************************************************)
NameAlphabet == {49, AtSign, 102}          \* '1', '@', 'f'

StringsUpTo(n) == UNION {[1..k -> NameAlphabet] : k \in 0..n}

NodeNames == StringsUpTo(MaxNameLen) \ {<<>>}

NameTargets == StringsUpTo(MaxTargetLen) \X (StringsUpTo(MaxTargetLen) \cup {NullStr})

NameImage(name) == Image(<<TBegin(<<>>), TBegin(name), TEndNode, TEndNode, TEnd>>, <<>>)

\* the only named node of a NameImage is token 2 of its stream
NamedToken == Len(<<TBegin(<<>>), TBegin(<<>>)>>)

InitNames ==
    /\ image \in {NameImage(name) : name \in NodeNames}
    /\ base \in {b \in Bases : b % 8 = 0}
    /\ littleEndian = TRUE
    /\ junk = 0
    /\ fdt = FDT(base).node
    /\ pc = "idle"
    /\ op = "none"
    /\ self = InvalidNode
    /\ action = NoAction
    /\ token_ptr = NULL
    /\ stack = <<>>
    /\ retval = ALL_OK
    /\ result = NoResult
    /\ events = <<>>
    /\ oob = FALSE
    /\ nullRead = FALSE
    /\ reads = {}
    /\ other = NoThreads

get_sub_node_of_named ==
    /\ pc = "idle"
    /\ \E t \in NameTargets :
           Call("get_sub_node", FdtNode(TokAddr(NamedToken), fdt.m_fdt_header),
                NodeFinder(t[1], t[2]))

NextNames ==
    \/ get_sub_node_of_named
    \/ Enter
    \/ Satisfied
    \/ EndNodeCase
    \/ Finish

SpecNames == InitNames /\ [][NextNames]_vars

(***************************************************************************)
(* Two threads looking up in one buffer.  One thread runs at a time: the   *)
(* variables pc .. reads are the frame of the running thread (the locals   *)
(* of its lookup: `action`, `token_ptr`, the active traverse_node calls),  *)
(* other.ctx is the frame of the thread that waits.  The buffer and the    *)
(* FDT object are the only things the threads have in common, and no       *)
(* operation writes to them.  The main thread first runs one lookup alone, *)
(* then starts the threads: thread 1 repeats that lookup, thread 2 runs    *)
(* any lookup, and the scheduler may switch between any two steps.         *)
(***************************************************************************)
Frame ==
    [pc |-> pc, op |-> op, self |-> self, action |-> action, token_ptr |-> token_ptr,
     stack |-> stack, retval |-> retval, result |-> result, events |-> events,
     oob |-> oob, nullRead |-> nullRead, reads |-> reads]

IdleFrame ==
    [pc |-> "idle", op |-> "none", self |-> InvalidNode, action |-> NoAction,
     token_ptr |-> NULL, stack |-> <<>>, retval |-> ALL_OK, result |-> NoResult,
     events |-> <<>>, oob |-> FALSE, nullRead |-> FALSE, reads |-> {}]

SetFrame(f) ==
    /\ pc' = f.pc
    /\ op' = f.op
    /\ self' = f.self
    /\ action' = f.action
    /\ token_ptr' = f.token_ptr
    /\ stack' = f.stack
    /\ retval' = f.retval
    /\ result' = f.result
    /\ events' = f.events
    /\ oob' = f.oob
    /\ nullRead' = f.nullRead
    /\ reads' = f.reads

\* faulty variant: one visitor object for all the lookups of a kind (a static
\* `action`), so a thread that runs again finds what the other thread left
\* in it
Resume_sharedVisitor(ctx) ==
    [ctx EXCEPT !.action = IF action.kind = @.kind THEN action ELSE @]

\* what a thread finds when it runs again: `action` and `token_ptr` are
\* locals of get_sub_node / get_property / has_property, the traverse_node
\* calls live on the thread's stack
Resume(ctx) == ctx

\* the arguments of a lookup: the operation, the node and the names looked for
Arguments(o, h, act) ==
    <<o, h, IF act.kind = "NodeFinder" THEN <<act.m_node_name, act.m_unit_address>>
            ELSE <<act.m_looked_property>>>>

ThreadBuffers == {Image(TreeNested, StrBlock)}

InitThreads ==
    /\ image \in ThreadBuffers
    /\ base = CHOOSE b \in Bases : b % 8 = 0
    /\ littleEndian = TRUE
    /\ junk = 0
    /\ fdt = FDT(base).node
    /\ pc = "idle"
    /\ op = "none"
    /\ self = InvalidNode
    /\ action = NoAction
    /\ token_ptr = NULL
    /\ stack = <<>>
    /\ retval = ALL_OK
    /\ result = NoResult
    /\ events = <<>>
    /\ oob = FALSE
    /\ nullRead = FALSE
    /\ reads = {}
    /\ other = [phase |-> "alone", tid |-> 1, ctx |-> IdleFrame, call |-> <<>>,
                alone |-> NoResult, preempted |-> {}]

\* a thread calls a lookup on the FDT; thread 1 calls the one that ran alone
thread_lookup ==
    /\ pc = "idle"
    /\ get_sub_node \/ get_property \/ has_property
    /\ is_valid(self')
    /\ (other.phase = "threads" /\ other.tid = 1) =>
            Arguments(op', self', action') = other.call

\* the lookup that ran alone has returned: the main thread keeps what it
\* returned and starts the two threads
start_threads ==
    /\ other.phase = "alone" /\ pc = "done"
    /\ SetFrame(IdleFrame)
    /\ other' = [other EXCEPT !.phase = "threads", !.call = Arguments(op, self, action),
                              !.alone = result]
    /\ UNCHANGED <<config, fdt>>

\* the scheduler takes the processor from the running thread and gives it
\* to the other one
switch ==
    /\ other.phase = "threads" /\ pc # "crashed"
    /\ SetFrame(Resume(other.ctx))
    /\ other' = [other EXCEPT !.tid = IF @ = 1 THEN 2 ELSE 1,
                              !.ctx = Frame,
                              !.preempted = IF pc = "walk" THEN @ \cup {other.tid} ELSE @]
    /\ UNCHANGED <<config, fdt>>

NextThreads ==
    \/ thread_lookup
    \/ start_threads
    \/ switch
    \/ Enter
    \/ Satisfied
    \/ BeginNodeCase
    \/ EndNodeCase
    \/ PropCase
    \/ NopCase
    \/ EndCase
    \/ Return
    \/ Finish

SpecThreads == InitThreads /\ [][NextThreads]_vars

(***************************************************************************)
(* A caller that repeats a lookup.  The caller runs one lookup, keeps its  *)
(* arguments and what it returned (other.call, other.first), and then runs *)
(* any sequence of lookups on the FDT and on the nodes get_sub_node hands  *)
(* back.                                                                   *)
(***************************************************************************)
RepeatBuffers == {Image(TreeNested, StrBlock), Image(TreeRegs, StrBlock)}

InitRepeat ==
    /\ image \in RepeatBuffers
    /\ base = CHOOSE b \in Bases : b % 8 = 0
    /\ littleEndian = TRUE
    /\ junk = 0
    /\ fdt = FDT(base).node
    /\ pc = "idle"
    /\ op = "none"
    /\ self = InvalidNode
    /\ action = NoAction
    /\ token_ptr = NULL
    /\ stack = <<>>
    /\ retval = ALL_OK
    /\ result = NoResult
    /\ events = <<>>
    /\ oob = FALSE
    /\ nullRead = FALSE
    /\ reads = {}
    /\ other = [phase |-> "first", call |-> <<>>, first |-> NoResult]

\* a lookup on a valid handle
lookup ==
    /\ get_sub_node \/ get_property \/ has_property
    /\ is_valid(self')

\* the first lookup has returned: the caller keeps what it returned and
\* drops the node it may have got
keep_first ==
    /\ other.phase = "first" /\ pc = "done"
    /\ SetFrame(IdleFrame)
    /\ other' = [phase |-> "later", call |-> Arguments(op, self, action), first |-> result]
    /\ UNCHANGED <<config, fdt>>

NextRepeat ==
    \/ lookup
    \/ keep_first
    \/ Enter
    \/ Satisfied
    \/ BeginNodeCase
    \/ EndNodeCase
    \/ PropCase
    \/ NopCase
    \/ EndCase
    \/ Return
    \/ Finish

SpecRepeat == InitRepeat /\ [][NextRepeat]_vars

(***************************************************************************)
(* The cursor on its own: move_to_next_token applied again and again from  *)
(* the start of the structure block, until it stops moving.                *)
(***************************************************************************)
InitCursor ==
    /\ image \in {img \in Images : Len(img.bytes) >= HeaderSize}
    /\ base \in Bases
    /\ littleEndian \in BOOLEAN
    /\ junk \in JunkBytes
    /\ fdt = InvalidNode
    /\ pc = "cursor"
    /\ op = "move_to_next_token"
    /\ self = InvalidNode
    /\ action = NoAction
    /\ token_ptr = get_structure_block_ptr(base)
    /\ stack = <<>>
    /\ retval = ALL_OK
    /\ result = NoResult
    /\ events = <<>>
    /\ oob = FALSE
    /\ nullRead = FALSE
    /\ reads = {}
    /\ other = NoThreads

\* token_ptr = move_to_next_token(token_ptr); events keeps the positions the
\* cursor was advanced from
advance ==
    /\ pc = "cursor"
    /\ LET mv == move_to_next_token(token_ptr)
       IN  IF Faults(mv.rd) THEN Crash(FALSE)
           ELSE /\ token_ptr' = mv.ptr
                /\ events' = Append(events, <<"token", token_ptr>>)
                /\ pc' = IF mv.ptr = token_ptr THEN "done" ELSE "cursor"
                /\ oob' = (oob \/ Outside(mv.rd))
                /\ reads' = reads \cup mv.rd
                /\ UNCHANGED <<config, fdt, op, self, action, stack, retval, result,
                               nullRead, other>>

NextCursor == advance

SpecCursor == InitCursor /\ [][NextCursor]_vars

\* the caller goes on advancing as long as the cursor moves
SpecCursorFair == SpecCursor /\ WF_vars(advance)

(***************************************************************************)
(* read_value on its own: one call on a buffer of four bytes.              *)
(***************************************************************************)
\* byte values at the ends and in the middle of 0..255, every bit set in one
SampleBytes == {0, 1, 85, 127, 128, 170, 254, 255}

InitWords ==
    /\ image \in {[bytes |-> w, toks |-> <<>>, strs |-> <<>>, intact |-> FALSE] :
                    w \in [1..SizeofWord -> SampleBytes]}
    /\ base \in Bases
    /\ littleEndian \in BOOLEAN
    /\ junk = 0
    /\ fdt = InvalidNode
    /\ pc = "idle"
    /\ op = "none"
    /\ self = InvalidNode
    /\ action = NoAction
    /\ token_ptr = base
    /\ stack = <<>>
    /\ retval = ALL_OK
    /\ result = NoResult
    /\ events = <<>>
    /\ oob = FALSE
    /\ nullRead = FALSE
    /\ reads = {}
    /\ other = NoThreads

\* uint32_t v = FdtEngine::read_value(ptr)
call_read_value ==
    /\ pc = "idle"
    /\ pc' = "done"
    /\ op' = "read_value"
    /\ result' = [kind |-> "read_value", val |-> read_value(token_ptr)]
    /\ reads' = {<<token_ptr, SizeofWord>>}
    /\ UNCHANGED <<config, fdt, self, action, token_ptr, stack, retval, events, oob,
                   nullRead, other>>

NextWords == call_read_value

SpecWords == InitWords /\ [][NextWords]_vars

(***************************************************************************)
(* The two earlier drafts of the walk, src/libfdt.cpp and                  *)
(* src/fdt_parser.hpp, each as a function from the arguments of one call   *)
(* to what the call leaves behind: its status, the cursor, the visitor,    *)
(* the hooks called and the reads made, or a fault at an unmapped address. *)
(***************************************************************************)
Outcome(status, ptr, act, evs, rds) ==
    [status |-> status, token_ptr |-> ptr, action |-> act, events |-> evs, reads |-> rds,
     crashed |-> FALSE]

\* the step that was to read an unmapped address has changed nothing
Fault(ptr, act, evs, rds) ==
    [status |-> ALL_OK, token_ptr |-> ptr, action |-> act, events |-> evs, reads |-> rds,
     crashed |-> TRUE]

\* ---- src/libfdt.cpp ----
RECURSIVE libfdt_StrlenFrom(_, _)
libfdt_StrlenFrom(str, i) ==
    IF ~Mapped(str + i) THEN i
    ELSE IF Mem(str + i) # 0 THEN libfdt_StrlenFrom(str, i + 1)
    ELSE i

libfdt_Utilities_strlen(str) == libfdt_StrlenFrom(str, 0)

libfdt_get_aligned_after_offset(ptr, offset) ==
    ptr + SizeofWord * ((offset \div SizeofWord) + (IF offset % SizeofWord # 0 THEN 1 ELSE 0))

libfdt_read_value(ptr) ==
    LET x == NativeLoad(ptr) IN
    IF littleEndian
    THEN Or32(Or32(Shl32(And32(x, <<0, 0, 0, 255>>), 3), Shl32(And32(x, <<0, 0, 255, 0>>), 1)),
              Or32(Shr32(And32(x, <<0, 255, 0, 0>>), 1), Shr32(And32(x, <<255, 0, 0, 0>>), 3)))
    ELSE x

libfdt_get_next_token(ptr) ==
    LET token == libfdt_read_value(ptr)
        next  == ptr + SizeofWord
    IN  IF token = FDT_BEGIN_NODE THEN
            LET str_size == libfdt_Utilities_strlen(next)
            IN  [ptr |-> IF str_size # 0
                         THEN libfdt_get_aligned_after_offset(next, str_size + 1)
                         ELSE next + SizeofWord,
                 rd  |-> {<<ptr, SizeofWord>>, <<next, str_size + 1>>}]
        ELSE IF token = FDT_END_NODE THEN
            [ptr |-> next, rd |-> {<<ptr, SizeofWord>>}]
        ELSE IF token = FDT_PROP THEN
            LET prop_length == ToInt(libfdt_read_value(next + OffLen))
            IN  [ptr |-> libfdt_get_aligned_after_offset(next, SizeofPropDesc + prop_length),
                 rd  |-> {<<ptr, SizeofWord>>, <<next + OffLen, SizeofWord>>}]
        ELSE IF token = FDT_NOP THEN
            [ptr |-> next, rd |-> {<<ptr, SizeofWord>>}]
        ELSE
            [ptr |-> ptr, rd |-> {<<ptr, SizeofWord>>}]

libfdt_get_structure_block_ptr(hdr) == hdr + ToInt(libfdt_read_value(hdr + OffDtStruct))

RECURSIVE libfdt_traverse_node(_, _, _, _, _), libfdt_loop(_, _, _, _, _, _)
\* traverse_node, from its entry to the head of its loop; evs and rds are
\* the hooks called and the reads made before this call
libfdt_traverse_node(cursor, hdr, act, evs, rds) ==
    LET token == libfdt_read_value(cursor)
        here  == {<<cursor, SizeofWord>>}
    IN  IF token = FDT_BEGIN_NODE THEN
            LET hook == on_FDT_BEGIN_NODE(act, hdr, cursor)
                mv   == libfdt_get_next_token(cursor)
                rd   == here \cup hook.rd \cup mv.rd
            IN  IF Faults(rd) THEN Fault(cursor, act, evs, rds)
                ELSE libfdt_loop(cursor, mv.ptr, hdr, hook.act,
                              Append(evs, <<"BEGIN_NODE", cursor>>), rds \cup rd)
        ELSE IF Faults(here) THEN Fault(cursor, act, evs, rds)
        ELSE Outcome(INVALID_STRUCTURE_BLOCK, cursor, act, evs, rds \cup here)

\* while(true) of the call that started at start_token
libfdt_loop(start_token, cursor, hdr, act, evs, rds) ==
    IF is_action_satisfied(act) THEN Outcome(ALL_OK, cursor, act, evs, rds)
    ELSE
    LET token == libfdt_read_value(cursor)
        here  == {<<cursor, SizeofWord>>}
        block == {<<hdr + OffDtStruct, SizeofWord>>}
    IN  CASE token = FDT_BEGIN_NODE ->
               IF Faults(here) THEN Fault(cursor, act, evs, rds)
               ELSE LET nested == libfdt_traverse_node(cursor, hdr, act, evs, rds \cup here)
                    IN  IF nested.crashed \/ nested.status # ALL_OK THEN nested
                        ELSE libfdt_loop(start_token, nested.token_ptr, hdr, nested.action,
                                      nested.events, nested.reads)
          [] token = FDT_END_NODE ->
               LET hook == on_FDT_END_NODE(act, hdr, cursor)
                   mv   == libfdt_get_next_token(cursor)
                   rd   == here \cup block \cup hook.rd \cup mv.rd
                   evs2 == Append(evs, <<"END_NODE", cursor>>)
               IN  IF Faults(rd) THEN Fault(cursor, act, evs, rds)
                   ELSE IF start_token # libfdt_get_structure_block_ptr(hdr)
                        THEN Outcome(ALL_OK, mv.ptr, hook.act, evs2, rds \cup rd)
                        ELSE libfdt_loop(start_token, mv.ptr, hdr, hook.act, evs2, rds \cup rd)
          [] token = FDT_PROP ->
               LET hook == on_FDT_PROP_NODE(act, hdr, cursor)
                   mv   == libfdt_get_next_token(cursor)
                   rd   == here \cup hook.rd \cup mv.rd
               IN  IF Faults(rd) THEN Fault(cursor, act, evs, rds)
                   ELSE libfdt_loop(start_token, mv.ptr, hdr, hook.act,
                                 Append(evs, <<"PROP", cursor>>), rds \cup rd)
          [] token = FDT_NOP ->
               LET hook == on_FDT_NOP_NODE(act, hdr, cursor)
                   mv   == libfdt_get_next_token(cursor)
                   rd   == here \cup hook.rd \cup mv.rd
               IN  IF Faults(rd) THEN Fault(cursor, act, evs, rds)
                   ELSE libfdt_loop(start_token, mv.ptr, hdr, hook.act,
                                 Append(evs, <<"NOP", cursor>>), rds \cup rd)
          [] token = FDT_END ->
               IF Faults(here \cup block) THEN Fault(cursor, act, evs, rds)
               ELSE Outcome(IF start_token = libfdt_get_structure_block_ptr(hdr)
                            THEN ALL_OK ELSE INVALID_STRUCTURE_BLOCK,
                            cursor, act, evs, rds \cup here \cup block)
          [] OTHER ->
               IF Faults(here) THEN Fault(cursor, act, evs, rds)
               ELSE Outcome(INVALID_STRUCTURE_BLOCK, cursor, act, evs, rds \cup here)

\* ---- src/fdt_parser.hpp ----
\* strlen and strcmp of <cstring>: the bytes are compared as unsigned char;
\* only the sign of strcmp's result is specified
RECURSIVE std_strlen_from(_, _)
std_strlen_from(s, i) ==
    IF ~Mapped(s + i) \/ Mem(s + i) = 0 THEN i ELSE std_strlen_from(s, i + 1)

std_strlen(s) == std_strlen_from(s, 0)

RECURSIVE std_strcmp_from(_, _, _)
std_strcmp_from(s1, s2, i) ==
    IF ~Mapped(s1 + i) THEN [r |-> 0, n |-> i + 1]
    ELSE LET a == Mem(s1 + i)
             b == CharAt(s2, i)
         IN  IF a # b THEN [r |-> IF a < b THEN -1 ELSE 1, n |-> i + 1]
             ELSE IF a = 0 THEN [r |-> 0, n |-> i + 1]
             ELSE std_strcmp_from(s1, s2, i + 1)

std_strcmp(s1, s2) == std_strcmp_from(s1, s2, 0)

fdt_parser_get_aligned_after_offset(ptr, offset) ==
    ptr + SizeofWord * ((offset \div SizeofWord) + (IF offset % SizeofWord # 0 THEN 1 ELSE 0))

fdt_parser_load_value(ptr) ==
    LET x == NativeLoad(ptr) IN
    IF littleEndian
    THEN Or32(Or32(Shl32(And32(x, <<0, 0, 0, 255>>), 3), Shl32(And32(x, <<0, 0, 255, 0>>), 1)),
              Or32(Shr32(And32(x, <<0, 255, 0, 0>>), 1), Shr32(And32(x, <<255, 0, 0, 0>>), 3)))
    ELSE x

fdt_parser_move_to_next_token(ptr) ==
    LET token == fdt_parser_load_value(ptr)
        next  == ptr + SizeofWord
    IN  IF token = FDT_BEGIN_NODE THEN
            LET str_size == std_strlen(next)
            IN  [ptr |-> IF str_size # 0
                         THEN fdt_parser_get_aligned_after_offset(next, str_size + 1)
                         ELSE next + SizeofWord,
                 rd  |-> {<<ptr, SizeofWord>>, <<next, str_size + 1>>}]
        ELSE IF token = FDT_END_NODE THEN
            [ptr |-> next, rd |-> {<<ptr, SizeofWord>>}]
        ELSE IF token = FDT_PROP THEN
            LET prop_length == ToInt(fdt_parser_load_value(next + OffLen))
            IN  [ptr |-> fdt_parser_get_aligned_after_offset(next, SizeofPropDesc + prop_length),
                 rd  |-> {<<ptr, SizeofWord>>, <<next + OffLen, SizeofWord>>}]
        ELSE IF token = FDT_NOP THEN
            [ptr |-> next, rd |-> {<<ptr, SizeofWord>>}]
        ELSE
            [ptr |-> ptr, rd |-> {<<ptr, SizeofWord>>}]

fdt_parser_get_structure_block_ptr(hdr) == hdr + ToInt(fdt_parser_load_value(hdr + OffDtStruct))

fdt_parser_get_string_block_ptr(hdr) == hdr + ToInt(fdt_parser_load_value(hdr + OffDtStrings))

\* NodeFinder(node_name): m_node_found is left uninitialised and never read
fdt_parser_NodeFinder(node_name) ==
    [kind |-> "NodeFinder", m_result |-> InvalidNode, m_search_for |-> node_name]

fdt_parser_PropertyFinder(to_look_for) ==
    [kind |-> "PropertyFinder", m_result |-> NULL, m_looked_property |-> to_look_for,
     m_property_length |-> 0, m_property_found |-> FALSE]

fdt_parser_NodeFinder_on_FDT_BEGIN_NODE(act, hdr, token) ==
    IF act.m_search_for # NullStr THEN
        LET current_node_name == token + SizeofWord
            cmp_result        == std_strcmp(current_node_name, act.m_search_for)
        IN  [act |-> IF cmp_result.r = 0 THEN [act EXCEPT !.m_result = FdtNode(token, hdr)]
                     ELSE act,
             rd  |-> {<<current_node_name, cmp_result.n>>}, hdr |-> FALSE]
    ELSE [act |-> act, rd |-> {}, hdr |-> FALSE]

fdt_parser_PropertyFinder_on_FDT_PROP_NODE(act, hdr, token) ==
    LET property_descriptor == token + SizeofWord
        nameoff       == ToInt(fdt_parser_load_value(property_descriptor + OffNameoff))
        property_name == fdt_parser_get_string_block_ptr(hdr) + nameoff
        cmp           == std_strcmp(property_name, act.m_looked_property)
        len           == ToInt(fdt_parser_load_value(property_descriptor + OffLen))
        rd            == {<<hdr + OffDtStrings, SizeofWord>>,
                          <<property_descriptor + OffNameoff, SizeofWord>>,
                          <<property_name, cmp.n>>}
    IN  IF cmp.r = 0
        THEN [act |-> [act EXCEPT !.m_property_length = len,
                                  !.m_result = IF len # 0
                                               THEN token + SizeofWord * ((SizeofPropDesc \div SizeofWord) + 1)
                                               ELSE @,
                                  !.m_property_found = TRUE],
              rd  |-> rd \cup {<<property_descriptor + OffLen, SizeofWord>>}, hdr |-> TRUE]
        ELSE [act |-> act, rd |-> rd, hdr |-> TRUE]

\* the virtual calls, for the visitors the file defines
fdt_parser_on_FDT_BEGIN_NODE(act, hdr, token) ==
    IF act.kind = "NodeFinder" THEN fdt_parser_NodeFinder_on_FDT_BEGIN_NODE(act, hdr, token)
    ELSE NoHook(act)

fdt_parser_on_FDT_PROP_NODE(act, hdr, token) ==
    IF act.kind = "PropertyFinder" THEN fdt_parser_PropertyFinder_on_FDT_PROP_NODE(act, hdr, token)
    ELSE NoHook(act)

fdt_parser_on_FDT_END_NODE(act, hdr, token) == NoHook(act)

fdt_parser_on_FDT_NOP_NODE(act, hdr, token) == NoHook(act)

fdt_parser_is_action_satisfied(act) ==
    CASE act.kind = "NodeFinder"     -> is_valid(act.m_result)
      [] act.kind = "PropertyFinder" -> act.m_property_found
      [] OTHER                       -> FALSE

RECURSIVE fdt_parser_traverse_node(_, _, _, _, _), fdt_parser_loop(_, _, _, _, _, _)
\* traverse_node, from its entry to the head of its loop; evs and rds are
\* the hooks called and the reads made before this call
fdt_parser_traverse_node(cursor, hdr, act, evs, rds) ==
    LET token == fdt_parser_load_value(cursor)
        here  == {<<cursor, SizeofWord>>}
    IN  IF token = FDT_BEGIN_NODE THEN
            LET hook == fdt_parser_on_FDT_BEGIN_NODE(act, hdr, cursor)
                mv   == fdt_parser_move_to_next_token(cursor)
                rd   == here \cup hook.rd \cup mv.rd
            IN  IF Faults(rd) THEN Fault(cursor, act, evs, rds)
                ELSE fdt_parser_loop(cursor, mv.ptr, hdr, hook.act,
                              Append(evs, <<"BEGIN_NODE", cursor>>), rds \cup rd)
        ELSE IF Faults(here) THEN Fault(cursor, act, evs, rds)
        ELSE Outcome(INVALID_STRUCTURE_BLOCK, cursor, act, evs, rds \cup here)

\* while(true) of the call that started at start_token
fdt_parser_loop(start_token, cursor, hdr, act, evs, rds) ==
    IF fdt_parser_is_action_satisfied(act) THEN Outcome(ALL_OK, cursor, act, evs, rds)
    ELSE
    LET token == fdt_parser_load_value(cursor)
        here  == {<<cursor, SizeofWord>>}
        block == {<<hdr + OffDtStruct, SizeofWord>>}
    IN  CASE token = FDT_BEGIN_NODE ->
               IF Faults(here) THEN Fault(cursor, act, evs, rds)
               ELSE LET nested == fdt_parser_traverse_node(cursor, hdr, act, evs, rds \cup here)
                    IN  IF nested.crashed \/ nested.status # ALL_OK THEN nested
                        ELSE fdt_parser_loop(start_token, nested.token_ptr, hdr, nested.action,
                                      nested.events, nested.reads)
          [] token = FDT_END_NODE ->
               LET hook == fdt_parser_on_FDT_END_NODE(act, hdr, cursor)
                   mv   == fdt_parser_move_to_next_token(cursor)
                   rd   == here \cup block \cup hook.rd \cup mv.rd
                   evs2 == Append(evs, <<"END_NODE", cursor>>)
               IN  IF Faults(rd) THEN Fault(cursor, act, evs, rds)
                   ELSE IF start_token # fdt_parser_get_structure_block_ptr(hdr)
                        THEN Outcome(ALL_OK, mv.ptr, hook.act, evs2, rds \cup rd)
                        ELSE fdt_parser_loop(start_token, mv.ptr, hdr, hook.act, evs2, rds \cup rd)
          [] token = FDT_PROP ->
               LET hook == fdt_parser_on_FDT_PROP_NODE(act, hdr, cursor)
                   mv   == fdt_parser_move_to_next_token(cursor)
                   rd   == here \cup hook.rd \cup mv.rd
               IN  IF Faults(rd) THEN Fault(cursor, act, evs, rds)
                   ELSE fdt_parser_loop(start_token, mv.ptr, hdr, hook.act,
                                 Append(evs, <<"PROP", cursor>>), rds \cup rd)
          [] token = FDT_NOP ->
               LET hook == fdt_parser_on_FDT_NOP_NODE(act, hdr, cursor)
                   mv   == fdt_parser_move_to_next_token(cursor)
                   rd   == here \cup hook.rd \cup mv.rd
               IN  IF Faults(rd) THEN Fault(cursor, act, evs, rds)
                   ELSE fdt_parser_loop(start_token, mv.ptr, hdr, hook.act,
                                 Append(evs, <<"NOP", cursor>>), rds \cup rd)
          [] token = FDT_END ->
               IF Faults(here \cup block) THEN Fault(cursor, act, evs, rds)
               ELSE Outcome(IF start_token = fdt_parser_get_structure_block_ptr(hdr)
                            THEN ALL_OK ELSE INVALID_STRUCTURE_BLOCK,
                            cursor, act, evs, rds \cup here \cup block)
          [] OTHER ->
               IF Faults(here) THEN Fault(cursor, act, evs, rds)
               ELSE Outcome(INVALID_STRUCTURE_BLOCK, cursor, act, evs, rds \cup here)

\* FdtNode::get_sub_node(to_find) and get_property / has_property of
\* src/fdt_parser.hpp on the node h: the walk they make
fdt_parser_get_sub_node(h, to_find) ==
    fdt_parser_traverse_node(h.m_node_token_start, h.m_fdt_header,
                             fdt_parser_NodeFinder(to_find), <<>>, {})

fdt_parser_get_property(h, property_name) ==
    fdt_parser_traverse_node(h.m_node_token_start, h.m_fdt_header,
                             fdt_parser_PropertyFinder(property_name), <<>>, {})

(***************************************************************************)
(* What the producer put into the buffer, for stating the claims: none of  *)
(* this is read by the library.                                            *)
(***************************************************************************)
Toks == image.toks

IsBegin(i) == Toks[i].tag = "BEGIN_NODE"
IsProp(i)  == Toks[i].tag = "PROP"

\* the node handle h stands on token i of the stream
StandsOn(h, i) == i \in 1..Len(Toks) /\ h.m_node_token_start = TokAddr(i)

\* the index of the END_NODE that closes the node opened before j at depth d
RECURSIVE MatchEnd(_, _, _)
MatchEnd(ts, j, d) ==
    IF j > Len(ts) THEN j
    ELSE IF ts[j].tag = "BEGIN_NODE" THEN MatchEnd(ts, j + 1, d + 1)
    ELSE IF ts[j].tag = "END_NODE" THEN (IF d = 1 THEN j ELSE MatchEnd(ts, j + 1, d - 1))
    ELSE MatchEnd(ts, j + 1, d)

\* the tokens of the node that starts at token i
Subtree(i) == i..MatchEnd(Toks, i + 1, 1)

PropName(i) == StringAt(image.strs, Toks[i].nameoff)

\* the bytes of the buffer at the addresses a .. a + n - 1
BytesAt(a, n) == [k \in 1..n |-> Mem(a + k - 1)]

Lookups == {"get_sub_node", "get_property", "has_property"}

\* a lookup on a valid handle that stands on node i of a well-formed tree has returned
LookupDone(name, i) ==
    /\ pc = "done" /\ op = name
    /\ WellFormed(image) /\ is_valid(self) /\ self.m_fdt_header = base
    /\ StandsOn(self, i) /\ IsBegin(i)

\* the value each lookup returns when it found nothing
NotFound(res) ==
    CASE res.kind = "get_sub_node" -> ~is_valid(res.val)
      [] res.kind = "get_property" -> res.val = NULL
      [] res.kind = "has_property" -> res.val = FALSE
      [] OTHER                     -> FALSE

(***************************************************************************)
(* C1  The FDT built from a buffer is valid iff the buffer's address is a  *)
(* multiple of 8 and its first four bytes are D0 0D FE ED; a valid FDT     *)
(* stands at base + off_dt_struct (bytes 8..11, big-endian), an invalid    *)
(* one has both members null.                                              *)
(***************************************************************************)
MagicInBuffer ==
    /\ Len(image.bytes) >= SizeofWord
    /\ SubSeq(image.bytes, 1, SizeofWord) = <<208, 13, 254, 237>>

OffDtStructInBuffer ==
    ((image.bytes[9] * 256 + image.bytes[10]) * 256 + image.bytes[11]) * 256 + image.bytes[12]

C1_OpenValidIffAlignedMagic ==
    pc # "start" =>
        /\ is_valid(fdt) <=> (base % 8 = 0 /\ MagicInBuffer)
        /\ is_valid(fdt) =>
              /\ fdt.m_fdt_header = base
              /\ fdt.m_node_token_start = base + OffDtStructInBuffer
        /\ ~is_valid(fdt) => fdt.m_fdt_header = NULL /\ fdt.m_node_token_start = NULL

C1_Witness ==
    /\ pc = "idle" /\ is_valid(fdt) /\ littleEndian
    /\ fdt.m_node_token_start = base + HeaderSize

(***************************************************************************)
(* C2  A lookup on an invalid handle reads nothing through the null        *)
(* member, does not fail, and returns "not found".                         *)
(***************************************************************************)
C2_InvalidHandleInert ==
    (op \in Lookups /\ ~is_valid(self)) =>
        /\ ~nullRead
        /\ pc # "crashed"
        /\ pc = "done" => NotFound(result)

(***************************************************************************)
(* C3  With a unit address U, get_sub_node(N, U) on a node named N@U       *)
(* returns that node, and returns nothing on a node named N<extra>@U or    *)
(* N@U<extra> (extra not empty).                                           *)
(***************************************************************************)
NamedNode == Toks[NamedToken].name
TargetN   == action.m_node_name
TargetU   == action.m_unit_address

NamedLookupDone == pc = "done" /\ op = "get_sub_node" /\ StandsOn(self, NamedToken)

\* name = front \o extra \o "@" \o back for some non-empty extra without '@'...
HasExtraBeforeAt(name, front, back) ==
    /\ Len(name) > Len(front) + 1 + Len(back)
    /\ SubSeq(name, 1, Len(front)) = front
    /\ SubSeq(name, Len(name) - Len(back), Len(name)) = <<AtSign>> \o back

\* name = front \o "@" \o back \o extra for some non-empty extra
HasExtraAfterUnit(name, front, back) ==
    /\ Len(name) > Len(front) + 1 + Len(back)
    /\ SubSeq(name, 1, Len(front) + 1 + Len(back)) = front \o <<AtSign>> \o back

C3_Rejections ==
    (NamedLookupDone /\ TargetU # NullStr) =>
        /\ HasExtraBeforeAt(NamedNode, TargetN, TargetU) => ~is_valid(result.val)
        /\ HasExtraAfterUnit(NamedNode, TargetN, TargetU) => ~is_valid(result.val)

\* the claim as it stands: every N
C3_UnitAddressMatch ==
    (NamedLookupDone /\ TargetU # NullStr) =>
        /\ NamedNode = TargetN \o <<AtSign>> \o TargetU => result.val = self
        /\ C3_Rejections

\* amended: N holds no '@'
C3_UnitAddressMatchNoAtInName ==
    (NamedLookupDone /\ TargetU # NullStr) =>
        /\ (NamedNode = TargetN \o <<AtSign>> \o TargetU
              /\ \A k \in 1..Len(TargetN) : TargetN[k] # AtSign) => result.val = self
        /\ C3_Rejections

C3_Witness ==
    /\ NamedLookupDone /\ TargetU \notin {NullStr, <<>>} /\ TargetN # <<>>
    /\ NamedNode = TargetN \o <<AtSign>> \o TargetU
    /\ result.val = self /\ is_valid(result.val)

(***************************************************************************)
(* C4  Without a unit address, get_sub_node(N) returns a node iff the      *)
(* node's whole name, '@unit' included, equals N.                          *)
(***************************************************************************)
C4_ExactWithoutUnit ==
    (NamedLookupDone /\ TargetU = NullStr /\ TargetN # NullStr) =>
        /\ is_valid(result.val) <=> NamedNode = TargetN
        /\ is_valid(result.val) => result.val = self

C4_Witness ==
    /\ NamedLookupDone /\ TargetU = NullStr /\ TargetN \notin {NullStr, <<>>}
    /\ Len(NamedNode) > Len(TargetN) + 1
    /\ SubSeq(NamedNode, 1, Len(TargetN) + 1) = TargetN \o <<AtSign>>
    /\ ~is_valid(result.val)

(***************************************************************************)
(* C5  On a well-formed tree get_sub_node returns a node of the walked     *)
(* range whose name is the target (N, or N@U with a unit address), with    *)
(* the handle's header, when there is one, and an invalid node when there  *)
(* is none.                                                                *)
(***************************************************************************)
Matches(name, n, u) == IF u = NullStr THEN name = n ELSE name = n \o <<AtSign>> \o u

C5_GetChildFindsMatching ==
    \A i \in 1..Len(Toks) :
        (LookupDone("get_sub_node", i) /\ TargetN # NullStr) =>
            LET matching == {j \in Subtree(i) : IsBegin(j) /\ Matches(Toks[j].name, TargetN, TargetU)}
            IN  IF matching # {}
                THEN /\ is_valid(result.val)
                     /\ result.val.m_fdt_header = self.m_fdt_header
                     /\ \E j \in matching : result.val.m_node_token_start = TokAddr(j)
                ELSE ~is_valid(result.val)

(***************************************************************************)
(* C6  A property lookup whose first property of the requested name has a  *)
(* non-zero len ends with m_result 12 bytes after that PROP tag and        *)
(* m_property_length = len: the bytes it designates are the value.         *)
(***************************************************************************)
PropertyLookupDone(i) == LookupDone("get_property", i) \/ LookupDone("has_property", i)

\* the properties called name among the tokens of node i, in stream order
Named(i, name) == {j \in Subtree(i) : IsProp(j) /\ PropName(j) = name}

First(S) == CHOOSE j \in S : \A k \in S : j <= k

C6_PropertyValueLocated ==
    \A i \in 1..Len(Toks) :
        PropertyLookupDone(i) =>
            LET props == Named(i, action.m_looked_property)
            IN  (props # {} /\ Toks[First(props)].len # 0) =>
                    /\ action.m_property_found
                    /\ action.m_result = TokAddr(First(props)) + SizeofWord + SizeofPropDesc
                    /\ action.m_property_length = Toks[First(props)].len
                    /\ BytesAt(action.m_result, action.m_property_length) = Toks[First(props)].val
                    /\ op = "get_property" => result.val = action.m_result

C6_Witness ==
    /\ PropertyLookupDone(1) /\ op = "get_property" /\ littleEndian
    /\ action.m_looked_property = Compatible
    /\ action.m_property_length = Len(AcmeWidget)
    /\ BytesAt(result.val, Len(AcmeWidget)) = AcmeWidget

(***************************************************************************)
(* C7  A property lookup reports "not found" when no property of the       *)
(* walked range has the name, and "found, length 0" when the first one     *)
(* that has it is empty; has_property tells the two apart.                 *)
(***************************************************************************)
C7_EmptyIsNotAbsent ==
    \A i \in 1..Len(Toks) :
        PropertyLookupDone(i) =>
            LET props == Named(i, action.m_looked_property)
            IN  /\ props = {} =>
                      /\ ~action.m_property_found
                      /\ op = "has_property" => result.val = FALSE
                /\ (props # {} /\ Toks[First(props)].len = 0) =>
                      /\ action.m_property_found
                      /\ action.m_property_length = 0
                      /\ op = "has_property" => result.val = TRUE

C7_Witness ==
    /\ \E i \in 1..Len(Toks) : PropertyLookupDone(i)
    /\ op = "has_property" /\ result.val = TRUE
    /\ action.m_looked_property = Reg /\ action.m_property_length = 0

(***************************************************************************)
(* C8  A walk whose start token is not BEGIN_NODE returns                  *)
(* INVALID_STRUCTURE_BLOCK, invokes no hook and leaves the cursor alone.   *)
(***************************************************************************)
StartsOffNode(i) ==
    /\ image.intact /\ StandsOn(self, i)
    /\ Toks[i].tag \notin {"BEGIN_NODE", "BEGIN_RAW"}

C8_NonBeginStartRejected ==
    \A i \in 1..Len(Toks) :
        (pc \in {"walk", "done"} /\ StartsOffNode(i)) =>
            /\ events = <<>>
            /\ token_ptr = self.m_node_token_start
            /\ pc = "done" =>
                  /\ retval = INVALID_STRUCTURE_BLOCK
                  /\ op = "traverse_node" => result.val = INVALID_STRUCTURE_BLOCK

C8_Witness ==
    /\ pc = "done" /\ op = "traverse_node" /\ StartsOffNode(1)
    /\ Toks[1].tag = "END_NODE"
    /\ result.val = INVALID_STRUCTURE_BLOCK

(***************************************************************************)
(* C9  A lookup whose walk reported a malformed structure hands its caller *)
(* something else than the "not found" value.                              *)
(***************************************************************************)
C9_MalformedDistinctFromNotFound ==
    (pc = "done" /\ op \in Lookups /\ is_valid(self) /\ retval = INVALID_STRUCTURE_BLOCK) =>
        ~NotFound(result)

(***************************************************************************)
(* C10  No byte outside the buffer is read, by the constructor or by a     *)
(* walk, whatever the buffer holds (the header is complete, lookups are on *)
(* valid handles).                                                         *)
(***************************************************************************)
C10_ReadsStayInBuffer ==
    (Len(image.bytes) >= HeaderSize /\ (op \in Lookups => is_valid(self))) =>
        ~oob /\ pc # "crashed"


(***************************************************************************)
(* C11  Under every interleaving of two threads' lookups, a lookup returns *)
(* what the same lookup returned when it ran alone: thread 1, which        *)
(* repeats the lookup that ran alone, and thread 2 whenever it happens to  *)
(* call it too; running or waiting.                                        *)
(***************************************************************************)
FinishedAs(f) ==
    f.pc = "done" /\ Arguments(f.op, f.self, f.action) = other.call

C11_ThreadsReturnSoloResult ==
    other.phase = "threads" =>
        /\ FinishedAs(Frame) => result = other.alone
        /\ FinishedAs(other.ctx) => other.ctx.result = other.alone

\* thread 1 found a node although it lost the processor in the middle of
\* its walk to thread 2, which is itself in the middle of a walk
C11_Witness ==
    /\ other.phase = "threads" /\ other.tid = 1 /\ FinishedAs(Frame)
    /\ other.preempted = {1, 2}
    /\ op = "get_sub_node" /\ is_valid(result.val) /\ result = other.alone
    /\ other.ctx.pc = "walk" /\ other.ctx.events # <<>>
    /\ Arguments(other.ctx.op, other.ctx.self, other.ctx.action) # other.call

(***************************************************************************)
(* C12  traverse_node from the start of a well-formed structure block,     *)
(* with a visitor that is never satisfied, returns ALL_OK; it has then     *)
(* invoked on_FDT_BEGIN_NODE and on_FDT_END_NODE equally often, and at no  *)
(* point of the walk more often on_FDT_END_NODE than on_FDT_BEGIN_NODE.    *)
(***************************************************************************)
Count(evs, hook) == Cardinality({k \in 1..Len(evs) : evs[k][1] = hook})

FullWalk ==
    /\ pc \in {"walk", "done"} /\ op = "traverse_node"
    /\ WellFormed(image) /\ StandsOn(self, 1)

C12_BeginEndBalanced ==
    FullWalk =>
        /\ \A k \in 0..Len(events) :
              Count(SubSeq(events, 1, k), "END_NODE") <= Count(SubSeq(events, 1, k), "BEGIN_NODE")
        /\ pc = "done" =>
              /\ result.val = ALL_OK
              /\ Count(events, "END_NODE") = Count(events, "BEGIN_NODE")

C12_Witness ==
    /\ FullWalk /\ pc = "done" /\ result.val = ALL_OK
    /\ Toks = TreeNested
    /\ Count(events, "BEGIN_NODE") = Cardinality({i \in 1..Len(Toks) : IsBegin(i)})
    /\ Count(events, "END_NODE") > 1

(***************************************************************************)
(* C13  On a well-formed structure block the cursor, advanced from the     *)
(* block's start, stands on the tokens of the block one after the other    *)
(* (each a multiple of 4 bytes from the start), after finitely many        *)
(* advances stands on FDT_END, size_dt_struct - 4 bytes from the start,    *)
(* has met FDT_END once, and does not move when advanced from there.       *)
(***************************************************************************)
\* size_dt_struct, the tenth field of the header
SizeDtStruct ==
    LET at == HeaderSize - SizeofWord
    IN  ((image.bytes[at + 1] * 256 + image.bytes[at + 2]) * 256 + image.bytes[at + 3]) * 256
        + image.bytes[at + 4]

Visited == [k \in 1..Len(events) |-> events[k][2]]

OnTokens ==
    /\ pc # "crashed"
    /\ Len(events) <= Len(Toks)
    /\ \A k \in 1..Len(events) :
          /\ Visited[k] = TokAddr(k)
          /\ (Visited[k] - TokAddr(1)) % SizeofWord = 0
    /\ Cardinality({k \in 1..Len(events) : Toks[k].tag = "END"}) <= 1
    /\ pc = "cursor" => Len(events) < Len(Toks) /\ token_ptr = TokAddr(Len(events) + 1)

StoppedOnEnd ==
    /\ pc = "done"
    /\ Len(events) = Len(Toks)
    /\ Toks[Len(events)].tag = "END"
    /\ Cardinality({k \in 1..Len(events) : Toks[k].tag = "END"}) = 1
    /\ token_ptr = Visited[Len(events)]
    /\ token_ptr - TokAddr(1) = SizeDtStruct - SizeofWord
    /\ move_to_next_token(token_ptr).ptr = token_ptr

C13_CursorReachesEndOnce ==
    /\ [](WellFormed(image) => OnTokens /\ (pc = "done" => StoppedOnEnd))
    /\ <>(WellFormed(image) => StoppedOnEnd)

C13_Witness ==
    /\ WellFormed(image) /\ Toks = TreeNested /\ ~littleEndian
    /\ StoppedOnEnd

(***************************************************************************)
(* C14  One advance moves the cursor by 4 + roundup4(n + 1) bytes over a   *)
(* BEGIN_NODE with a name of n > 0 bytes, 8 over a BEGIN_NODE with an      *)
(* empty name, 4 over END_NODE and NOP, 4 + roundup4(8 + len) over a PROP  *)
(* of length len, and 0 on END.                                            *)
(***************************************************************************)
Roundup4(x) == CHOOSE m \in x..(x + 3) : m % 4 = 0

AdvanceOver(t) ==
    CASE t.tag = "BEGIN_NODE" -> IF Len(t.name) > 0 THEN 4 + Roundup4(Len(t.name) + 1) ELSE 8
      [] t.tag = "END_NODE"   -> 4
      [] t.tag = "NOP"        -> 4
      [] t.tag = "PROP"       -> 4 + Roundup4(8 + t.len)
      [] t.tag = "END"        -> 0

\* the cursor was last advanced from token i
AdvancedFrom(i) ==
    /\ pc \in {"cursor", "done"} /\ image.intact
    /\ events # <<>> /\ events[Len(events)][2] = TokAddr(i)

C14_AdvanceByTag ==
    \A i \in 1..Len(Toks) :
        (AdvancedFrom(i) /\ Toks[i].tag \in {"BEGIN_NODE", "END_NODE", "NOP", "PROP", "END"}) =>
            token_ptr - TokAddr(i) = AdvanceOver(Toks[i])

\* an advance over a property whose length is one byte over a multiple of 4
C14_Witness ==
    \E i \in 1..Len(Toks) :
        /\ AdvancedFrom(i) /\ Toks[i].tag = "PROP"
        /\ Toks[i].len > 4 /\ Toks[i].len % 4 = 1 /\ Len(Toks[i].val) = Toks[i].len
        /\ token_ptr = TokAddr(i + 1)

(***************************************************************************)
(* C15  Once the visitor of a walk has found what it looks for, no step of *)
(* the walk invokes a hook, reads memory, moves the cursor or enters a     *)
(* nested traverse_node; every step leaves ALL_OK as the value returned,   *)
(* whatever the tokens behind the cursor are.                              *)
(***************************************************************************)
HasFound ==
    \/ action.kind = "NodeFinder" /\ is_valid(action.m_result)
    \/ action.kind = "PropertyFinder" /\ action.m_property_found

C15_ShortCircuit ==
    [][ (pc = "walk" /\ HasFound) =>
            /\ events' = events
            /\ reads' = reads
            /\ token_ptr' = token_ptr
            /\ action' = action
            /\ Len(stack') <= Len(stack)
            /\ retval' = ALL_OK
            /\ pc' \in {"walk", "done"} ]_vars

\* get_sub_node found node `a` of / { a { <END> : the out-of-place END
\* behind it was not read, and the nested and the outer call returned
C15_Witness ==
    /\ pc = "done" /\ op = "get_sub_node" /\ HasFound /\ retval = ALL_OK
    /\ image.intact /\ ~WellFormed(image)
    /\ Len(Toks) > 2 /\ Toks[2].tag = "BEGIN_NODE" /\ Toks[3].tag = "END"
    /\ result.val.m_node_token_start = TokAddr(2)
    /\ \A r \in reads : r[1] + r[2] <= TokAddr(3)

(***************************************************************************)
(* C16  traverse_node on a node of a well-formed tree, with a visitor that *)
(* is never satisfied, invokes the hooks for exactly the BEGIN_NODE, PROP, *)
(* NOP and END_NODE tokens of that node, nested nodes included, each once, *)
(* at its address and in the order of the stream.                          *)
(***************************************************************************)
\* the tokens of node i as the hooks should see them
HooksOf(i) ==
    [k \in 1..Cardinality(Subtree(i)) |-> <<Toks[i + k - 1].tag, TokAddr(i + k - 1)>>]

IsPrefix(s, t) == Len(s) <= Len(t) /\ SubSeq(t, 1, Len(s)) = s

C16_HooksInStreamOrder ==
    \A i \in 1..Len(Toks) :
        (pc \in {"walk", "done"} /\ op = "traverse_node" /\ WellFormed(image)
           /\ StandsOn(self, i) /\ IsBegin(i)) =>
            /\ IsPrefix(events, HooksOf(i))
            /\ pc = "done" => events = HooksOf(i)

\* node a of / { a { <nop> b { reg; }; }; b { ... }; }: six hooks, two levels
C16_Witness ==
    /\ pc = "done" /\ op = "traverse_node" /\ Toks = TreeNested /\ StandsOn(self, 2)
    /\ events = HooksOf(2)
    /\ [k \in 1..Len(events) |-> events[k][1]] =
          <<"BEGIN_NODE", "NOP", "BEGIN_NODE", "PROP", "END_NODE", "END_NODE">>

(***************************************************************************)
(* C17  In a traverse_node that starts at the start of the structure       *)
(* block, a token other than FDT_END right after the root's END_NODE makes *)
(* the walk return INVALID_STRUCTURE_BLOCK, and no hook is invoked for a   *)
(* token behind the root's END_NODE.                                       *)
(***************************************************************************)
RootEnd == MatchEnd(Toks, 2, 1)

C17_OnlyEndAfterRoot ==
    (pc \in {"walk", "done"} /\ op = "traverse_node" /\ image.intact
       /\ StandsOn(self, 1) /\ IsBegin(1)
       /\ RootEnd < Len(Toks) /\ Toks[RootEnd].tag = "END_NODE"
       /\ Toks[RootEnd + 1].tag # "END") =>
        /\ \A k \in 1..Len(events) : events[k][2] <= TokAddr(RootEnd)
        /\ pc = "done" => result.val = INVALID_STRUCTURE_BLOCK

(***************************************************************************)
(* C18  With a visitor that is never satisfied, traverse_node returns      *)
(* INVALID_STRUCTURE_BLOCK when it meets a tag it does not know, or        *)
(* FDT_END while a node is open, be that node nested or the root.          *)
(***************************************************************************)
\* the first token from j on, d nodes being open, that is an unknown tag or
\* an FDT_END; 0 if the node the walk started on closes before, or the
\* stream stops being a token list
RECURSIVE FirstOffence(_, _, _)
FirstOffence(ts, j, d) ==
    IF j > Len(ts) THEN 0
    ELSE CASE ts[j].tag = "BEGIN_NODE" -> FirstOffence(ts, j + 1, d + 1)
           [] ts[j].tag = "END_NODE"   -> IF d = 1 THEN 0 ELSE FirstOffence(ts, j + 1, d - 1)
           [] ts[j].tag = "NOP"        -> FirstOffence(ts, j + 1, d)
           [] ts[j].tag = "PROP"       -> IF ts[j].len = Len(ts[j].val)
                                          THEN FirstOffence(ts, j + 1, d) ELSE 0
           [] ts[j].tag \in {"END", "RAW"} -> j
           [] OTHER                    -> 0

C18_OffenceIsMalformed ==
    \A i \in 1..Len(Toks) :
        (pc = "done" /\ op = "traverse_node" /\ image.intact
           /\ StandsOn(self, i) /\ IsBegin(i) /\ FirstOffence(Toks, i + 1, 1) # 0) =>
            result.val = INVALID_STRUCTURE_BLOCK

(***************************************************************************)
(* C19  On a well-formed tree get_sub_node returns the first node, in the  *)
(* order of the stream, whose name is the target, among the nodes of the   *)
(* handle's subtree at any depth: a nested node that comes first wins over *)
(* a direct child that comes later.                                        *)
(***************************************************************************)
C19_FirstMatchAtAnyDepth ==
    \A i \in 1..Len(Toks) :
        (LookupDone("get_sub_node", i) /\ TargetN # NullStr) =>
            LET matching == {j \in Subtree(i) : IsBegin(j) /\ Matches(Toks[j].name, TargetN, TargetU)}
            IN  matching # {} =>
                    result.val = FdtNode(TokAddr(First(matching)), self.m_fdt_header)

(***************************************************************************)
(* C20  get_property and has_property on a node of a well-formed tree find *)
(* the first property of the requested name, in the order of the stream,   *)
(* among the properties of the node and of the nodes nested in it at any   *)
(* depth; has_property is true iff there is one.                           *)
(***************************************************************************)
C20_PropertyAtAnyDepth ==
    \A i \in 1..Len(Toks) :
        PropertyLookupDone(i) =>
            LET props == Named(i, action.m_looked_property)
                first == First(props)
            IN  /\ op = "has_property" => result.val = (props # {})
                /\ props # {} =>
                      /\ action.m_property_found
                      /\ action.m_property_length = Toks[first].len
                      /\ (op = "get_property" /\ Toks[first].len # 0) =>
                            result.val = TokAddr(first) + SizeofWord + SizeofPropDesc

\* `reg` looked up on the root of / { a { reg = <7 7>; b { reg = <9>; }; }; }:
\* the root has no property, a's reg comes before b's
C20_Witness ==
    /\ PropertyLookupDone(1) /\ op = "get_property" /\ Toks = TreeRegs
    /\ action.m_looked_property = Reg
    /\ Cardinality(Named(1, Reg)) > 1
    /\ \A j \in Named(1, Reg) : \E k \in 2..(j - 1) : IsBegin(k)
    /\ BytesAt(result.val, action.m_property_length) = <<7, 7>>

(***************************************************************************)
(* C21  read_value returns the four bytes at its argument as one number,   *)
(* the byte at the lowest address most significant: on a little-endian     *)
(* host the native load with its bytes in reverse order, on a big-endian   *)
(* host the native load itself.                                            *)
(***************************************************************************)
\* the digits, base 256 and most significant first, of
\* b0 * 2^24 + b1 * 2^16 + b2 * 2^8 + b3 for the bytes b0 b1 b2 b3 at a
InBufferOrder(a) == <<Mem(a), Mem(a + 1), Mem(a + 2), Mem(a + 3)>>

Reversed(w) == <<w[4], w[3], w[2], w[1]>>

C21_ReadValueBigEndian ==
    (pc = "done" /\ op = "read_value") =>
        /\ result.val = InBufferOrder(token_ptr)
        /\ result.val = image.bytes
        /\ littleEndian => result.val = Reversed(NativeLoad(token_ptr))
        /\ ~littleEndian => result.val = NativeLoad(token_ptr)

\* 55 80 AA 01 read on a little-endian host
C21_Witness ==
    /\ pc = "done" /\ op = "read_value" /\ littleEndian
    /\ image.bytes = <<85, 128, 170, 1>>
    /\ result.val = <<85, 128, 170, 1>>
    /\ NativeLoad(token_ptr) = <<1, 170, 128, 85>>

(***************************************************************************)
(* C22  During any walk the number of traverse_node calls that are active  *)
(* at once is at most the nesting depth of the node being visited, the     *)
(* start node counting as depth 1; on a full walk of a well-formed tree it *)
(* never exceeds the tree's greatest nesting depth (and reaches it).       *)
(***************************************************************************)
\* the nesting depth of the node that begins at token j, counted from the
\* node that begins at token i: the nodes opened and not yet closed at j
DepthFrom(i, j) ==
    Cardinality({k \in i..j : Toks[k].tag = "BEGIN_NODE"})
        - Cardinality({k \in i..j : Toks[k].tag = "END_NODE"})

\* the tokens i..j lie in the buffer as the producer listed them
Plain(i, j) ==
    \A k \in i..j :
        \/ Toks[k].tag \in {"BEGIN_NODE", "END_NODE", "NOP"}
        \/ Toks[k].tag = "PROP" /\ Toks[k].len = Len(Toks[k].val)

MaxDepth == LET ds == {DepthFrom(1, j) : j \in 1..Len(Toks)}
            IN  CHOOSE d \in ds : \A e \in ds : e <= d

ActiveCalls == Len(stack)

C22_CallsWithinDepth ==
    /\ \A i, j \in 1..Len(Toks) :
          (pc = "walk" /\ image.intact /\ self.m_fdt_header = base
             /\ StandsOn(self, i) /\ IsBegin(i) /\ i <= j /\ Plain(i, j)
             /\ stack # <<>> /\ top.start_token = TokAddr(j) /\ IsBegin(j)) =>
              ActiveCalls <= DepthFrom(i, j)
    /\ FullWalk => ActiveCalls <= MaxDepth

\* what does hold: on a well-formed tree both bounds are kept
C22_CallsWithinDepthWellFormed == WellFormed(image) => C22_CallsWithinDepth

\* three calls are active inside node b of / { a { b { }; }; }
C22_DepthReached ==
    FullWalk /\ pc = "walk" /\ MaxDepth = Len(<<1, 2, 3>>) /\ ActiveCalls = MaxDepth

(***************************************************************************)
(* C23  get_sub_node(h, N, U) with a unit address U never returns a node   *)
(* whose full name is not N, '@', U: in particular not a node whose part   *)
(* before '@' is a proper prefix of N.                                     *)
(***************************************************************************)
C23_NoPrefixMatch ==
    (NamedLookupDone /\ TargetU # NullStr /\ is_valid(result.val)) =>
        NamedNode = TargetN \o <<AtSign>> \o TargetU

(***************************************************************************)
(* C24  The node a lookup starts from is itself a candidate: on a valid    *)
(* handle h of a well-formed tree get_sub_node(h, N) returns h's own       *)
(* position when h's own name is N, and reads nothing behind h's name; on  *)
(* the root, get_sub_node(root, "") returns the root.                      *)
(***************************************************************************)
\* the first address behind the name of the node at token i, its NUL included
NameEnd(i) == TokAddr(i) + SizeofWord + Len(Toks[i].name) + 1

C24_StartNodeIsCandidate ==
    \A i \in 1..Len(Toks) :
        (LookupDone("get_sub_node", i) /\ TargetU = NullStr /\ TargetN = Toks[i].name) =>
            /\ result.val = self
            /\ events = <<<<"BEGIN_NODE", TokAddr(i)>>>>
            /\ \A rd \in reads : TokAddr(i) <= rd[1] /\ rd[1] + rd[2] <= NameEnd(i)

\* get_sub_node(root, "") on / { compatible; child@1 { }; }
C24_Witness ==
    /\ LookupDone("get_sub_node", 1) /\ self = fdt
    /\ Toks = TreeWidget
    /\ TargetN = <<>> /\ TargetU = NullStr
    /\ result.val = fdt
    /\ reads # {}

(***************************************************************************)
(* C25  A walk that starts at a node other than the root of a well-formed  *)
(* tree stays inside that node: every hook is called for a token of the    *)
(* node's subtree; with a visitor that is never satisfied the walk returns *)
(* ALL_OK right after the node's own END_NODE, the cursor on the token     *)
(* behind it; a lookup on such a handle returns nothing from outside the   *)
(* subtree.                                                                *)
(***************************************************************************)
SubtreeEnd(i) == MatchEnd(Toks, i + 1, 1)

\* a walk on a valid handle that stands on node i, not the root, of a well-formed tree
InnerWalk(i) ==
    /\ pc \in {"walk", "done"}
    /\ WellFormed(image) /\ is_valid(self) /\ self.m_fdt_header = base
    /\ i > 1 /\ StandsOn(self, i) /\ IsBegin(i)

C25_WalkStaysInSubtree ==
    \A i \in 1..Len(Toks) :
        InnerWalk(i) =>
            /\ \A k \in 1..Len(events) :
                  \E j \in Subtree(i) : events[k] = <<Toks[j].tag, TokAddr(j)>>
            /\ token_ptr <= TokAddr(SubtreeEnd(i) + 1)
            /\ \A rd \in reads \ {<<base + OffDtStruct, SizeofWord>>, <<base + OffDtStrings, SizeofWord>>} :
                  \/ TokAddr(i) <= rd[1] /\ rd[1] + rd[2] <= TokAddr(SubtreeEnd(i) + 1)
                  \/ rd[1] >= base + ToInt(read_value(base + OffDtStrings))
            /\ (pc = "done" /\ op = "traverse_node") =>
                  /\ result.val = ALL_OK
                  /\ token_ptr = TokAddr(SubtreeEnd(i) + 1)
                  /\ events[Len(events)] = <<"END_NODE", TokAddr(SubtreeEnd(i))>>
            /\ (pc = "done" /\ op = "get_sub_node" /\ is_valid(result.val)) =>
                  \E j \in Subtree(i) : IsBegin(j) /\ result.val = FdtNode(TokAddr(j), base)
            /\ (pc = "done" /\ op = "get_property" /\ result.val # NULL) =>
                  \E j \in Subtree(i) :
                      IsProp(j) /\ result.val = TokAddr(j) + SizeofWord + SizeofPropDesc
            /\ (pc = "done" /\ op = "has_property" /\ result.val) =>
                  \E j \in Subtree(i) : IsProp(j) /\ PropName(j) = action.m_looked_property

\* node a of / { a { <nop> b { reg; }; }; b { compatible; }; }: the walk ends
\* on the BEGIN_NODE of a's sibling b and has not called a hook for it
C25_Witness ==
    /\ InnerWalk(2) /\ pc = "done" /\ op = "traverse_node" /\ Toks = TreeNested
    /\ result.val = ALL_OK
    /\ token_ptr = TokAddr(SubtreeEnd(2) + 1)
    /\ IsBegin(SubtreeEnd(2) + 1)
    /\ Len(events) = Cardinality(Subtree(2))

(***************************************************************************)
(* C26  Once a traverse_node call returns INVALID_STRUCTURE_BLOCK, every    *)
(* call that encloses it returns INVALID_STRUCTURE_BLOCK at once: no hook   *)
(* is called and nothing is read after the offending token, the status is  *)
(* never turned into ALL_OK, and the outermost traverse_node returns it.    *)
(***************************************************************************)
C26_InvalidPropagates ==
    [][ (pc = "walk" /\ retval = INVALID_STRUCTURE_BLOCK) =>
            /\ stack # <<>> /\ top.at = "return"
            /\ events' = events
            /\ reads' = reads
            /\ token_ptr' = token_ptr
            /\ action' = action
            /\ retval' = INVALID_STRUCTURE_BLOCK
            /\ \/ /\ Len(stack) > 1
                  /\ pc' = "walk"
                  /\ Len(stack') = Len(stack) - 1
                  /\ stack'[Len(stack')].at = "return"
               \/ /\ Len(stack) = 1
                  /\ pc' = "done"
                  /\ op = "traverse_node" => result'.val = INVALID_STRUCTURE_BLOCK ]_vars

\* END inside node a of BEGIN_NODE "", BEGIN_NODE "a", END: the status came
\* up through two calls
C26_Witness ==
    /\ pc = "done" /\ op = "traverse_node" /\ image.intact
    /\ StandsOn(self, 1)
    /\ Len(Toks) = Len(<<1, 2, 3>>) /\ IsBegin(1) /\ IsBegin(2) /\ Toks[Len(Toks)].tag = "END"
    /\ events = <<<<"BEGIN_NODE", TokAddr(1)>>, <<"BEGIN_NODE", TokAddr(2)>>>>
    /\ token_ptr = TokAddr(Len(Toks))
    /\ result.val = INVALID_STRUCTURE_BLOCK

(***************************************************************************)
(* C27  Every walk from a node of a well-formed tree, with any visitor,    *)
(* returns.  Each pass through the loop of traverse_node returns, moves    *)
(* the cursor forward, or calls traverse_node for a nested node, whose     *)
(* entry moves the cursor forward; the cursor never moves back, and no     *)
(* more hooks are called than there are tokens from the start node to END. *)
(***************************************************************************)
\* a walk on a valid handle that stands on node i of a well-formed tree
WalkOn(i) ==
    /\ pc = "walk"
    /\ WellFormed(image) /\ is_valid(self) /\ self.m_fdt_header = base
    /\ StandsOn(self, i) /\ IsBegin(i)

Walking == \E i \in 1..Len(Toks) : WalkOn(i)

TokensToEnd(i) == Len(Toks) - i + 1

Returns == top'.at = "return"

C27_WalkTerminates ==
    /\ [](\A i \in 1..Len(Toks) :
            WalkOn(i) => /\ Len(events) <= TokensToEnd(i)
                         /\ token_ptr <= TokAddr(Len(Toks)))
    /\ [][ Walking =>
            /\ pc' \in {"walk", "done"}
            /\ token_ptr' >= token_ptr
            /\ events' # events => token_ptr' > token_ptr
            /\ (pc' = "walk" /\ top.at = "entry") => (Returns \/ token_ptr' > token_ptr)
            /\ (pc' = "walk" /\ top.at = "loop") =>
                  \/ Returns
                  \/ token_ptr' > token_ptr
                  \/ /\ Len(stack') = Len(stack) + 1
                     /\ top'.at = "entry"
                     /\ read_value(token_ptr) = FDT_BEGIN_NODE ]_vars
    /\ Walking ~> pc = "done"

\* the full walk of / { a { <nop> b { reg; }; }; b { compatible; }; } has
\* returned after one hook for each token before END
C27_Witness ==
    /\ pc = "done" /\ op = "traverse_node" /\ Toks = TreeNested
    /\ StandsOn(self, 1)
    /\ Len(events) = TokensToEnd(1) - 1
    /\ token_ptr = TokAddr(Len(Toks))
    /\ result.val = ALL_OK

(***************************************************************************)
(* C28  get_sub_node, get_property and has_property change neither the     *)
(* FDT, nor the handle they are called on, nor the buffer; a lookup that   *)
(* is repeated with the same arguments after any sequence of lookups on    *)
(* the same buffer returns what its first call returned.                   *)
(***************************************************************************)
Repeated ==
    /\ other.phase = "later" /\ pc = "done"
    /\ Arguments(op, self, action) = other.call

C28_LookupsChangeNothing ==
    /\ [](Repeated => result = other.first)
    /\ [][ /\ fdt' = fdt
           /\ image' = image
           /\ base' = base
           /\ pc = "walk" => self' = self ]_vars

\* get_property("reg") on node b of / { a { reg = <7 7>; b { reg = <9>; }; }; }
\* again, on a handle that had to be looked up again
C28_Witness ==
    /\ Repeated /\ op = "get_property" /\ Toks = TreeRegs
    /\ self # fdt /\ StandsOn(self, Len(<<1, 2, 3, 4>>))
    /\ action.m_looked_property = Reg
    /\ result = other.first
    /\ BytesAt(result.val, action.m_property_length) = <<9>>

(***************************************************************************)
(* C29  The three versions of the walk agree.  For every buffer, start     *)
(* position and visitor, traverse_node of src/libfdt.cpp and of            *)
(* src/fdt_parser.hpp call the same hooks in the same order, leave the     *)
(* cursor at the same place and return the same status as traverse_node of *)
(* src/fdt.hpp (or fault where it faults), and get_sub_node(name) of       *)
(* src/fdt_parser.hpp returns the node that get_sub_node(name) without a   *)
(* unit address returns in src/fdt.hpp.                                    *)
(***************************************************************************)
\* the visitor as the running call was given it
GivenVisitor ==
    CASE action.kind = "NodeFinder"     -> NodeFinder(action.m_node_name, action.m_unit_address)
      [] action.kind = "PropertyFinder" -> PropertyFinder(action.m_looked_property)
      [] OTHER                          -> action

\* the same call made to src/libfdt.cpp, with the same visitor object
InLibfdt ==
    libfdt_traverse_node(self.m_node_token_start, self.m_fdt_header, GivenVisitor, <<>>, {})

\* the same call made to src/fdt_parser.hpp, with that file's visitor
InFdtParser ==
    CASE action.kind = "NodeFinder"     -> fdt_parser_get_sub_node(self, action.m_node_name)
      [] action.kind = "PropertyFinder" -> fdt_parser_get_property(self, action.m_looked_property)
      [] OTHER -> fdt_parser_traverse_node(self.m_node_token_start, self.m_fdt_header,
                                           action, <<>>, {})

\* the draft's call w and the call of src/fdt.hpp came to the same end
SameWalk(w) ==
    /\ w.crashed = (pc = "crashed")
    /\ w.events = events
    /\ w.token_ptr = token_ptr
    /\ w.reads = reads
    /\ pc = "done" => w.status = retval

SameFindings(w) ==
    CASE action.kind = "NodeFinder"     -> w.action.m_result = action.m_result
      [] action.kind = "PropertyFinder" ->
            /\ w.action.m_result = action.m_result
            /\ w.action.m_property_found = action.m_property_found
            /\ w.action.m_property_length = action.m_property_length
      [] OTHER                          -> TRUE

CallEnded == pc \in {"done", "crashed"} /\ op \in Lookups \cup {"traverse_node"}

C29_DraftsAgree ==
    CallEnded =>
        /\ SameWalk(InLibfdt) /\ InLibfdt.action = action
        /\ (action.kind = "NodeFinder" => action.m_unit_address = NullStr) =>
              /\ SameWalk(InFdtParser) /\ SameFindings(InFdtParser)
              /\ (pc = "done" /\ op = "get_sub_node") =>
                    InFdtParser.action.m_result = result.val

\* get_sub_node("child@1") on the root of / { compatible; child@1 { }; }: both
\* files return the node child@1
C29_Witness ==
    /\ pc = "done" /\ op = "get_sub_node" /\ self = fdt /\ Toks = TreeWidget
    /\ TargetN = ChildAt1 /\ TargetU = NullStr
    /\ is_valid(result.val) /\ result.val # self
    /\ fdt_parser_get_sub_node(self, ChildAt1).action.m_result = result.val
    /\ InLibfdt.events = events /\ Len(events) > 1

=============================================================================
